---- MODULE Spec2Model ----
(***************************************************************************)
(* Model of the smart-chat natural-language-to-SQL pipeline of worklenz:   *)
(* the SQL validator (utils/sqlValidator), the tenant-filter injection and *)
(* the getChatInfo / getQueryData turn handlers of the smart-chat          *)
(* controllers, and the token-budget trimming of OpenAIService.            *)
(*                                                                         *)
(* A SQL string is modelled as the sequence of its lexical tokens, all in  *)
(* lower case (keywords, identifiers, punctuation, quoted literals).  The  *)
(* regular expressions of the controller are evaluated on that sequence,   *)
(* and node-sql-parser's astify is a recursive-descent parser from the     *)
(* token sequence to the AST shape the validator inspects.                 *)
(***************************************************************************)
EXTENDS Integers, Sequences, FiniteSets, TLC

\* ------------------------------------------------------------------ bounds
\* Largest number of JOIN branches of a generated candidate query.
MaxJoins == 2
\* Largest number of atomic predicates chained by AND/OR in a generated WHERE.
MaxAtoms == 2
\* Most messages of a conversation handed to createChatCompletion.
MaxMessages == 3
\* Most content tokens of a message (besides the size that meets the
\* budget exactly).
MaxContent == 3
\* Largest of the small input budgets MAX_TOKENS - maxResponseTokens.
MaxBudget == 12
\* Most rows of a result set handed to getAnswerFromQueryResult.
MaxRows == 25
\* Most pieces of the model's reply to the suggestion prompt.
MaxReplyLen == 6
\* Most invocations of createTableSchema, which may overlap.
MaxCalls == 2
\* Most advances of the clock.
MaxTicks == 1

VARIABLES
  vSql,          \* validateSqlQuery: the sql argument
  vTeamIds,      \* validateSqlQuery: the requiredTeamIds argument
  vVerdict,      \* validateSqlQuery: "pending", "Accepted" or the thrown error
  handler,       \* the handler of the turn: "getChatInfo" or "getQueryData"
  pc,            \* the await point the turn has reached
  teamId,        \* the caller's team id (getCurrentTeamId(req))
  reply,         \* the parsed reply of the SQL-generation model call
  sqlQuery,      \* the local sqlQuery of the handler
  validated,     \* the strings validateSqlQuery accepted in this turn
  executed,      \* the strings handed to db.query(sql), in call order
  responses,     \* what the handler sent or returned, in order
  dbResult,      \* the number of rows of queryResult.rows
  calls,         \* the collaborators the handler has invoked, in call order
  messages,          \* createChatCompletion: the messages argument
  maxResponseTokens, \* createChatCompletion: the maxResponseTokens argument
  trimmedMessages,   \* createChatCompletion: the local trimmedMessages
  ccPc,              \* createChatCompletion: where the call stands
  ccAttempts,        \* calls of client.chat.completions.create so far
  result,            \* getAnswerFromQueryResult: the rows, in order
  modelCalls,        \* the chunks sent to createChatCompletion, in call order
  modelReplies,      \* res.content of each call, in call order
  allResponses,      \* getAnswerFromQueryResult: the local allResponses
  answerContent,     \* getAnswerFromQueryResult: the returned content
  aqPc,              \* getAnswerFromQueryResult: where the call stands
  sgContent,         \* generateFollowUpSuggestions: the local content
  suggestions,       \* generateFollowUpSuggestions: the returned list
  sgPc,              \* generateFollowUpSuggestions: where the call stands
  clock,             \* Date.now()
  ticks,             \* the number of clock advances so far
  tables,            \* process.env.TABLES, split, trimmed and filtered
  schemaCache,       \* SmartChatControllerBase.schemaCache
  cts                \* the createTableSchema invocations: locals and position

validatorVars == <<vSql, vTeamIds, vVerdict>>
turnVars ==
  <<handler, pc, teamId, reply, sqlQuery, validated, executed, responses,
    dbResult, calls>>
trimVars ==
  <<messages, maxResponseTokens, trimmedMessages, ccPc, ccAttempts>>
answerVars ==
  <<result, modelCalls, modelReplies, allResponses, answerContent, aqPc>>
suggestVars == <<sgContent, suggestions, sgPc>>
schemaVars == <<clock, ticks, tables, schemaCache, cts>>
vars == <<vSql, vTeamIds, vVerdict, handler, pc, teamId, reply, sqlQuery,
          validated, executed, responses, dbResult, calls, messages,
          maxResponseTokens,
          trimmedMessages, ccPc, ccAttempts, result, modelCalls,
          modelReplies, allResponses, answerContent, aqPc, sgContent,
          suggestions, sgPc, clock, ticks, tables, schemaCache, cts>>

\* ------------------------------------------------------------------ tokens
Keywords == {"select", "from", "join", "on", "where", "and", "or", "in",
             "delete", "limit"}
Punct == {"(", ")", ",", ";", "=", ".", "*"}
StringLits == {"'T1'", "'T2'", "'x'"}
NumberLits == {"100"}
EOF == "<eof>"

\* The value of a single-quoted literal token.
Unquote(t) == CASE t = "'T1'" -> "T1" [] t = "'T2'" -> "T2" [] OTHER -> "x"
\* `'${teamId}'` of the template strings of injectTeamIdFilter.
Quote(id) == CASE id = "T1" -> "'T1'" [] id = "T2" -> "'T2'" [] OTHER -> "'x'"

\* \w+ of the controller's regular expressions: a run of word characters.
IsWord(t) == t # EOF /\ t \notin Punct /\ t \notin StringLits
\* An identifier of the SQL grammar: a word that is no keyword and no number.
IsIdent(t) == IsWord(t) /\ t \notin Keywords /\ t \notin NumberLits

Tok(toks, p) == IF p >= 1 /\ p <= Len(toks) THEN toks[p] ELSE EOF

\* The least element of a set of positions; 0 for the empty set (no match).
FirstIndex(S) == IF S = {} THEN 0 ELSE CHOOSE i \in S : \A j \in S : i <= j

\* ------------------------------------------------------------------ parser
NullNode == [type |-> "null"]
Fail == [ok |-> FALSE, node |-> NullNode, pos |-> 0]
Ok(n, p) == [ok |-> TRUE, node |-> n, pos |-> p]

\* The `join` property of a joined FROM entry is the string "INNER JOIN";
\* iterating it yields its characters.
InnerJoinChars ==
  << [char |-> "I"], [char |-> "N"], [char |-> "N"], [char |-> "E"],
     [char |-> "R"], [char |-> " "], [char |-> "J"], [char |-> "O"],
     [char |-> "I"], [char |-> "N"] >>

ParseColumn(toks, p) ==
  IF ~IsIdent(Tok(toks, p)) THEN Fail
  ELSE IF Tok(toks, p + 1) = "." /\ IsIdent(Tok(toks, p + 2))
       THEN Ok([type |-> "column_ref", table |-> Tok(toks, p),
                column |-> Tok(toks, p + 2)], p + 3)
       ELSE Ok([type |-> "column_ref", table |-> "",
                column |-> Tok(toks, p)], p + 1)

ParseValue(toks, p) ==
  IF Tok(toks, p) \in StringLits
  THEN Ok([type |-> "string", value |-> Unquote(Tok(toks, p))], p + 1)
  ELSE IF Tok(toks, p) \in NumberLits
  THEN Ok([type |-> "number", value |-> Tok(toks, p)], p + 1)
  ELSE ParseColumn(toks, p)


\* Each parsing step hands its intermediate result to a continuation
\* operator (the ...With operators) that inspects it.
RECURSIVE ParseListRest(_, _, _)
ParseListItem(toks, acc, v) ==
  IF ~v.ok THEN Fail
  ELSE IF Tok(toks, v.pos) = ","
       THEN ParseListRest(toks, Append(acc, v.node), v.pos + 1)
       ELSE IF Tok(toks, v.pos) = ")"
            THEN Ok([type |-> "expr_list", value |-> Append(acc, v.node)],
                    v.pos + 1)
            ELSE Fail

ParseListRest(toks, acc, p) == ParseListItem(toks, acc, ParseValue(toks, p))

ParseList(toks, p) ==
  IF Tok(toks, p) = "(" THEN ParseListRest(toks, << >>, p + 1) ELSE Fail

\* The node of a binary expression from the parse results of its two sides.
Binary(op, l, r) ==
  IF ~r.ok THEN Fail
  ELSE Ok([type |-> "binary_expr", operator |-> op,
           left |-> l, right |-> r.node], r.pos)

\* A closing parenthesis is expected after e.
Closed(toks, e) ==
  IF e.ok /\ Tok(toks, e.pos) = ")" THEN Ok(e.node, e.pos + 1) ELSE Fail

RECURSIVE ParseOr(_, _)
RECURSIVE ParseOrRest(_, _)
RECURSIVE ParseAnd(_, _)
RECURSIVE ParseAndRest(_, _)
RECURSIVE ParseCmp(_, _)
RECURSIVE ParsePrimary(_, _)

ParsePrimary(toks, p) ==
  IF Tok(toks, p) = "("
  THEN Closed(toks, ParseOr(toks, p + 1))
  ELSE ParseValue(toks, p)

ParseCmpWith(toks, l) ==
  IF ~l.ok THEN Fail
  ELSE IF Tok(toks, l.pos) = "="
  THEN Binary("=", l.node, ParsePrimary(toks, l.pos + 1))
  ELSE IF Tok(toks, l.pos) = "in"
  THEN Binary("IN", l.node, ParseList(toks, l.pos + 1))
  ELSE l

ParseCmp(toks, p) == ParseCmpWith(toks, ParsePrimary(toks, p))

ParseAndRest(toks, l) ==
  IF ~l.ok THEN Fail
  ELSE IF Tok(toks, l.pos) # "and" THEN l
  ELSE ParseAndRest(toks, Binary("AND", l.node, ParseCmp(toks, l.pos + 1)))

ParseAnd(toks, p) == ParseAndRest(toks, ParseCmp(toks, p))

ParseOrRest(toks, l) ==
  IF ~l.ok THEN Fail
  ELSE IF Tok(toks, l.pos) # "or" THEN l
  ELSE ParseOrRest(toks, Binary("OR", l.node, ParseAnd(toks, l.pos + 1)))

ParseOr(toks, p) == ParseOrRest(toks, ParseAnd(toks, p))

RECURSIVE ParseStmt(_, _)
RECURSIVE ParseTableRef(_, _)
RECURSIVE ParseJoins(_, _, _)

\* A derived sub-select in parentheses must be a SELECT and carry an alias.
DerivedTable(toks, s) ==
  IF s.ok /\ s.node.type = "select" /\ Tok(toks, s.pos) = ")"
          /\ IsIdent(Tok(toks, s.pos + 1))
  THEN Ok([expr |-> [ast |-> s.node], as |-> Tok(toks, s.pos + 1)],
          s.pos + 2)
  ELSE Fail

\* A table reference: a (possibly aliased) table name, or a derived
\* sub-select in parentheses with its alias.
ParseTableRef(toks, p) ==
  IF Tok(toks, p) = "("
  THEN DerivedTable(toks, ParseStmt(toks, p + 1))
  ELSE IF ~IsIdent(Tok(toks, p)) THEN Fail
  ELSE IF IsIdent(Tok(toks, p + 1))
       THEN Ok([table |-> Tok(toks, p), as |-> Tok(toks, p + 1)], p + 2)
       ELSE Ok([table |-> Tok(toks, p), as |-> ""], p + 1)

\* The FROM list is flat: every JOIN branch is one more entry of `from`,
\* carrying `join` ("INNER JOIN") and `on`.
JoinEntry(t, c) ==
  [f \in DOMAIN t \cup {"join", "on"} |->
     IF f = "join" THEN InnerJoinChars ELSE IF f = "on" THEN c ELSE t[f]]

JoinOn(toks, acc, t, c) ==
  IF ~c.ok THEN Fail
  ELSE ParseJoins(toks, Append(acc, JoinEntry(t.node, c.node)), c.pos)

JoinTable(toks, acc, t) ==
  IF ~t.ok \/ Tok(toks, t.pos) # "on" THEN Fail
  ELSE JoinOn(toks, acc, t, ParseOr(toks, t.pos + 1))

ParseJoins(toks, acc, p) ==
  IF Tok(toks, p) # "join" THEN Ok(acc, p)
  ELSE JoinTable(toks, acc, ParseTableRef(toks, p + 1))

FromFirst(toks, t) ==
  IF ~t.ok THEN Fail ELSE ParseJoins(toks, <<t.node>>, t.pos)

ParseFrom(toks, p) == FromFirst(toks, ParseTableRef(toks, p))

ParseWhere(toks, p) ==
  IF Tok(toks, p) = "where" THEN ParseOr(toks, p + 1) ELSE Ok(NullNode, p)

\* The position after an optional LIMIT clause; 0 when it is malformed.
ParseLimit(toks, p) ==
  IF Tok(toks, p) # "limit" THEN p
  ELSE IF Tok(toks, p + 1) \in NumberLits THEN p + 2 ELSE 0

StmtEnd(type, from, w, end) ==
  IF end = 0 THEN Fail
  ELSE Ok([type |-> type, from |-> from, where |-> w.node], end)

SelectWhere(toks, f, w) ==
  IF ~w.ok THEN Fail
  ELSE StmtEnd("select", f.node, w, ParseLimit(toks, w.pos))

SelectFrom(toks, f) ==
  IF ~f.ok THEN Fail ELSE SelectWhere(toks, f, ParseWhere(toks, f.pos))

DeleteWhere(table, w) ==
  IF ~w.ok THEN Fail
  ELSE StmtEnd("delete", << [table |-> table, as |-> ""] >>, w, w.pos)

ParseStmt(toks, p) ==
  IF Tok(toks, p) = "select" /\ Tok(toks, p + 1) = "*"
                             /\ Tok(toks, p + 2) = "from"
  THEN SelectFrom(toks, ParseFrom(toks, p + 3))
  ELSE IF Tok(toks, p) = "delete" /\ Tok(toks, p + 1) = "from"
                                  /\ IsIdent(Tok(toks, p + 2))
  THEN DeleteWhere(Tok(toks, p + 2), ParseWhere(toks, p + 3))
  ELSE Fail

RECURSIVE ParseStatements(_, _, _)
NextStatement(toks, acc, s) ==
  IF ~s.ok THEN Fail
  ELSE IF s.pos = Len(toks) + 1 THEN Ok(Append(acc, s.node), s.pos)
  ELSE IF Tok(toks, s.pos) # ";" THEN Fail
  ELSE IF s.pos = Len(toks) THEN Ok(Append(acc, s.node), s.pos + 1)
  ELSE ParseStatements(toks, Append(acc, s.node), s.pos + 1)

ParseStatements(toks, acc, p) == NextStatement(toks, acc, ParseStmt(toks, p))

\* parser.astify(sql, { database: "postgresql" }): the list of parsed
\* statements (`Array.isArray(ast) ? ast : [ast]`), or a thrown syntax error.
astify(sql) == ParseStatements(sql, << >>, 1)

\* ------------------------------------------------------------- validator
\* unnamed/part_006 is the revision of utils/sqlValidator.ts that accepts one
\* team id or a list of them.
ALLOWED_TABLES ==
  {"task_updates", "team_member_info_view", "countries",
   "project_comment_mentions", "project_logs", "task_comment_attachments",
   "task_status_categories_backup", "task_labels_view",
   "tasks_with_status_view", "task_dependencies", "project_comments",
   "project_member_allocations", "timezones", "task_comment_reactions",
   "task_labels", "tasks_assignees", "organizations", "projects", "teams",
   "job_titles", "task_comments", "task_activity_logs", "task_phase",
   "task_attachments", "email_invitations", "task_work_log", "team_members",
   "tasks", "task_comment_contents", "task_templates_tasks",
   "project_access_levels", "task_timers", "task_statuses_backup",
   "project_phases", "users", "project_members", "team_labels",
   "task_priorities", "task_comment_mentions", "roles", "task_statuses",
   "project_categories"}

\* `if (x.table)`: the property exists and is a non-empty string.
HasTable(e) == "table" \in DOMAIN e /\ e.table # ""

RECURSIVE JoinEntryTables(_, _)
JoinEntryTables(js, i) ==
  IF i > Len(js) THEN << >>
  ELSE (IF HasTable(js[i]) THEN <<js[i].table>> ELSE << >>)
       \o JoinEntryTables(js, i + 1)

RECURSIVE FromEntryTables(_, _)
FromEntryTables(from, i) ==
  IF i > Len(from) THEN << >>
  ELSE (IF HasTable(from[i]) THEN <<from[i].table>> ELSE << >>)
       \o (IF "join" \in DOMAIN from[i]
           THEN JoinEntryTables(from[i].join, 1) ELSE << >>)
       \o FromEntryTables(from, i + 1)

extractTables(statement) == FromEntryTables(statement.from, 1)

RECURSIVE hasValidTeamIdFilter_everyIn(_, _)
hasValidTeamIdFilter_everyIn(where, allowedTeamIds) ==
  IF where.type = "null" THEN FALSE
  ELSE IF where.type = "binary_expr"
  THEN IF /\ where.left.type = "column_ref"
          /\ where.left.column = "team_id"
          /\ where.operator = "="
          /\ where.right.type = "string"
          /\ where.right.value \in allowedTeamIds
       THEN TRUE
       ELSE IF /\ where.left.type = "column_ref"
               /\ where.left.column = "team_id"
               /\ where.operator = "IN"
               /\ where.right.type = "expr_list"
               /\ \A i \in DOMAIN where.right.value :
                     /\ where.right.value[i].type = "string"
                     /\ where.right.value[i].value \in allowedTeamIds
       THEN TRUE
       ELSE \/ hasValidTeamIdFilter_everyIn(where.left, allowedTeamIds)
            \/ hasValidTeamIdFilter_everyIn(where.right, allowedTeamIds)
  ELSE FALSE

RECURSIVE hasValidTeamIdFilter(_, _)
hasValidTeamIdFilter(where, allowedTeamIds) ==
  IF where.type = "null" THEN FALSE
  ELSE IF where.type = "binary_expr"
  THEN IF /\ where.left.type = "column_ref"
          /\ where.left.column = "team_id"
          /\ where.operator = "="
          /\ where.right.type = "string"
          /\ where.right.value \in allowedTeamIds
       THEN TRUE
       ELSE IF /\ where.left.type = "column_ref"
               /\ where.left.column = "team_id"
               /\ where.operator = "IN"
               /\ where.right.type = "expr_list"
               /\ \E i \in DOMAIN where.right.value :
                     /\ where.right.value[i].type = "string"
                     /\ where.right.value[i].value \in allowedTeamIds
       THEN TRUE
       ELSE \/ hasValidTeamIdFilter(where.left, allowedTeamIds)
            \/ hasValidTeamIdFilter(where.right, allowedTeamIds)
  ELSE FALSE

\* The body of the loop over the statements: the error it throws, or "ok".
ValidateStatement_anyKind(statement, allowedTeamIds) ==
  IF \E i \in DOMAIN extractTables(statement) :
        extractTables(statement)[i] \notin ALLOWED_TABLES
  THEN "TableNotAllowed"
  ELSE IF ~hasValidTeamIdFilter(statement.where, allowedTeamIds)
  THEN "MissingTeamFilter"
  ELSE "ok"

ValidateStatement(statement, allowedTeamIds) ==
  IF statement.type # "select" THEN "OnlySelect"
  ELSE IF \E i \in DOMAIN extractTables(statement) :
             extractTables(statement)[i] \notin ALLOWED_TABLES
  THEN "TableNotAllowed"
  ELSE IF ~hasValidTeamIdFilter(statement.where, allowedTeamIds)
  THEN "MissingTeamFilter"
  ELSE "ok"

RECURSIVE ValidateStatements(_, _, _)
ThrowOrContinue(statements, i, allowedTeamIds, v) ==
  IF v # "ok" THEN v
  ELSE ValidateStatements(statements, i + 1, allowedTeamIds)

ValidateStatements(statements, i, allowedTeamIds) ==
  IF i > Len(statements) THEN "Accepted"
  ELSE ThrowOrContinue(statements, i, allowedTeamIds,
                       ValidateStatement(statements[i], allowedTeamIds))

\* validateSqlQuery returns normally ("Accepted") or throws; the result names
\* the error thrown.  requiredTeamIds is the normalised array, as a set.
ValidateAst(ast, allowedTeamIds) ==
  IF ~ast.ok THEN "SyntaxError"
  ELSE ValidateStatements(ast.node, 1, allowedTeamIds)

validateSqlQuery(sql, requiredTeamIds) ==
  ValidateAst(astify(sql), requiredTeamIds)

\* allowedTeamIds.join(", ")
RECURSIVE JoinIds(_)
JoinIdsFrom(id, rest) ==
  IF rest = {} THEN id ELSE id \o ", " \o JoinIds(rest)

JoinIds(ids) ==
  IF ids = {} THEN ""
  ELSE JoinIdsFrom(CHOOSE x \in ids : TRUE, ids \ {CHOOSE x \in ids : TRUE})

\* The message of the Error a statement makes validateSqlQuery throw.
StatementMessage(statement, allowedTeamIds) ==
  IF statement.type # "select" THEN "Only SELECT queries are allowed."
  ELSE IF \E i \in DOMAIN extractTables(statement) :
             extractTables(statement)[i] \notin ALLOWED_TABLES
  THEN "Access to table '"
       \o extractTables(statement)[
            FirstIndex({ i \in DOMAIN extractTables(statement) :
                           extractTables(statement)[i] \notin ALLOWED_TABLES })]
       \o "' is not allowed."
  ELSE "Query must filter results by team_id(s): "
       \o JoinIds(allowedTeamIds) \o "."

\* The message of the Error validateSqlQuery throws on a rejected text.
ValidationMessage(sql, requiredTeamIds) ==
  IF ~astify(sql).ok THEN "SQL Parsing Error: Invalid SQL syntax."
  ELSE StatementMessage(
         astify(sql).node[
           FirstIndex({ i \in DOMAIN astify(sql).node :
                          ValidateStatement(astify(sql).node[i],
                                            requiredTeamIds) # "ok" })],
         requiredTeamIds)

\* ------------------------------------------------- candidate SQL strings
\* What the language model may reply: SELECTs over one base table with up to
\* MaxJoins JOIN branches and up to MaxAtoms predicates, DELETEs, batches of
\* two statements, and text that is no SQL.
Bases ==
  { <<"tasks", "t">>, <<"projects", "p">>, <<"projects">>,
    <<"chat_log", "c">> }

JoinPieces ==
  { <<"join", "projects", "p", "on", "t", ".", "project_id", "=", "p", ".", "id">>,
    <<"join", "projects", "on", "t", ".", "project_id", "=", "projects", ".", "id">>,
    <<"join", "team_members", "m", "on", "m", ".", "id", "=", "t", ".", "id">>,
    <<"join", "chat_log", "c", "on", "c", ".", "id", "=", "t", ".", "id">>,
    <<"join", "(", "select", "*", "from", "chat_log", "c", ")", "s",
      "on", "s", ".", "id", "=", "t", ".", "id">> }

RECURSIVE JoinLists(_)
JoinLists(n) ==
  IF n = 0 THEN { << >> }
  ELSE JoinLists(n - 1) \cup
       { js \o j : js \in JoinLists(n - 1), j \in JoinPieces }

Atoms ==
  { <<"team_id", "=", "'T1'">>,
    <<"team_id", "=", "'T2'">>,
    <<"p", ".", "team_id", "=", "'T1'">>,
    <<"status", "=", "'x'">>,
    <<"team_id", "in", "(", "'T1'", ",", "'T2'", ")">>,
    <<"team_id", "in", "(", "'T2'", ")">> }

RECURSIVE Chains(_)
Chains(n) ==
  IF n <= 1 THEN Atoms
  ELSE Chains(n - 1) \cup
       { c \o <<op>> \o a : c \in Chains(n - 1), op \in {"and", "or"},
                            a \in Atoms }

Wheres == { << >> } \cup { <<"where">> \o c : c \in Chains(MaxAtoms) }

\* Every FROM shape is generated with each of CoreWheres, and every WHERE
\* shape with each of CoreFroms.
CoreWheres ==
  { << >>,
    <<"where", "team_id", "=", "'T1'">>,
    <<"where", "status", "=", "'x'">>,
    <<"where", "team_id", "in", "(", "'T2'", ")">> }

CoreFroms ==
  { <<"tasks", "t">>, <<"projects", "p">>, <<"projects">>,
    <<"tasks", "t", "join", "projects", "p", "on", "t", ".", "project_id",
      "=", "p", ".", "id">> }

Selects ==
  { <<"select", "*", "from">> \o b \o js \o w :
      b \in Bases, js \in JoinLists(MaxJoins), w \in CoreWheres }
  \cup
  { <<"select", "*", "from">> \o f \o w : f \in CoreFroms, w \in Wheres }

Deletes ==
  { <<"delete", "from", "tasks">> \o w : w \in { << >> } \cup
      { <<"where">> \o a : a \in Atoms } }

BatchParts ==
  { <<"select", "*", "from", "tasks", "t", "where", "team_id", "=", "'T1'">>,
    <<"select", "*", "from", "projects", "p", "where", "team_id", "=", "'T2'">>,
    <<"select", "*", "from", "tasks", "t", "limit", "100">>,
    <<"delete", "from", "tasks", "where", "team_id", "=", "'T1'">> }

Batches == { a \o <<";">> \o b : a, b \in BatchParts }

NotSql == { <<"select", "*">>, <<"tasks", "where">> }

\* WHERE clauses with a tenant predicate as an operand of a comparison.
NestedWheres ==
  { <<"where", "(", "team_id", "=", "'T1'", ")", "=",
      "(", "status", "=", "'x'", ")">>,
    <<"where", "(", "status", "=", "'x'", ")", "=",
      "(", "team_id", "in", "(", "'T1'", ")", ")">>,
    <<"where", "status", "=", "'x'", "and",
      "(", "team_id", "=", "'T1'", ")", "=", "team_id">> }

\* IN lists with an entry that is no string literal.
MixedInWheres ==
  { <<"where", "team_id", "in", "(", "100", ",", "'T1'", ")">>,
    <<"where", "team_id", "in", "(", "100", ")">> }

MixedInSelects ==
  { <<"select", "*", "from">> \o f \o w :
      f \in CoreFroms, w \in MixedInWheres }

NestedSelects ==
  { <<"select", "*", "from">> \o f \o w :
      f \in CoreFroms, w \in NestedWheres }

Candidates ==
  Selects \cup Deletes \cup BatchParts \cup Batches \cup NotSql
  \cup NestedSelects \cup MixedInSelects

TeamIdArgs == { {"T1"}, {"T1", "T2"} }

\* ------------------------------------------- tenant-filter injection
\* The match positions of /<kw>\s+projects\s+(\w+)/i: the keyword, the word
\* projects, and one more word, which is captured as the alias.
AliasMatches(sql, kw) ==
  { i \in DOMAIN sql : /\ sql[i] = kw
                       /\ Tok(sql, i + 1) = "projects"
                       /\ IsWord(Tok(sql, i + 2)) }

\* projectAliasMatch ? projectAliasMatch[1] : null ("" stands for null).
ProjectAlias(sql) ==
  IF AliasMatches(sql, "join") # {}
  THEN sql[FirstIndex(AliasMatches(sql, "join")) + 2]
  ELSE IF AliasMatches(sql, "from") # {}
  THEN sql[FirstIndex(AliasMatches(sql, "from")) + 2]
  ELSE ""

\* The match positions of /where\s+/i: a `where` with text after it.
WhereMatches(sql) == { i \in DOMAIN sql : sql[i] = "where" /\ i < Len(sql) }

\* The match positions of /from\s+[\w.]+\s+\w+/i.
AfterFromMatches(sql) ==
  { i \in DOMAIN sql : /\ sql[i] = "from"
                       /\ IsWord(Tok(sql, i + 1))
                       /\ IsWord(Tok(sql, i + 2)) }

\* `${alias}.team_id = '${teamId}'`
TeamIdCondition(alias, id) == <<alias, ".", "team_id", "=", Quote(id)>>

InsertAfter(sql, i, toks) ==
  SubSeq(sql, 1, i) \o toks \o SubSeq(sql, i + 1, Len(sql))

injectTeamIdFilter(sql, id) ==
  IF ProjectAlias(sql) = "" THEN sql
  ELSE IF WhereMatches(sql) # {}
  THEN InsertAfter(sql, FirstIndex(WhereMatches(sql)),
                   TeamIdCondition(ProjectAlias(sql), id) \o <<"and">>)
  ELSE IF AfterFromMatches(sql) # {}
  THEN InsertAfter(sql, FirstIndex(AfterFromMatches(sql)) + 2,
                   <<"where">> \o TeamIdCondition(ProjectAlias(sql), id))
  ELSE sql \o <<"where">> \o TeamIdCondition(ProjectAlias(sql), id)

\* /where\s+.*team_id\s*=/.test(lowerQuery)
HasTeamIdEquals(sql) ==
  \E i, j \in DOMAIN sql :
     /\ i < j
     /\ sql[i] = "where"
     /\ sql[j] = "team_id"
     /\ Tok(sql, j + 1) = "="

\* /select\s+/.test(lowerQuery) && /from\s+/.test(lowerQuery)
LooksLikeSelect(sql) ==
  /\ \E i \in DOMAIN sql : sql[i] = "select" /\ i < Len(sql)
  /\ \E i \in DOMAIN sql : sql[i] = "from" /\ i < Len(sql)

\* Step 4 of getChatInfo: the query as it is handed to db.query.
EnforceTeamIdFilter(sql, id) ==
  IF ~HasTeamIdEquals(sql)
  THEN IF LooksLikeSelect(sql) THEN injectTeamIdFilter(sql, id) ELSE sql
  ELSE sql

\* new RegExp(`team_id\\s*=\\s*['"]?${teamId}['"]?`, "i").test(result.query)
NamesTeamId(sql, id) ==
  \E j \in DOMAIN sql :
     /\ sql[j] = "team_id"
     /\ Tok(sql, j + 1) = "="
     /\ Tok(sql, j + 2) = Quote(id)

\* ------------------------------------------------------------ the turn
TeamIds == {"T1", "T2"}
Handlers == {"getChatInfo", "getQueryData"}

\* The object JSON.parse yields for the model's reply.  isString: whether
\* `query` is a string; is_query: "true", "false" or "absent".
Reply(summary, query, isString, isQuery) ==
  [isNull |-> FALSE, summary |-> summary, query |-> query,
   isString |-> isString, is_query |-> isQuery]
NullReply ==
  [isNull |-> TRUE, summary |-> "", query |-> << >>, isString |-> FALSE,
   is_query |-> "absent"]

Replies ==
  { Reply("summary", c, TRUE, "true") : c \in Candidates }
  \cup { Reply("summary", c, TRUE, q) :
           c \in BatchParts, q \in {"false", "absent"} }
  \cup { Reply("summary", << >>, TRUE, "true"),
         Reply("", << >>, TRUE, "true"),
         Reply("summary", << >>, FALSE, "true"),
         NullReply }

Respond(status, answer) ==
  /\ responses' = Append(responses, [status |-> status, answer |-> answer])
  /\ pc' = "done"

\* throw new AppError(message, status) under @HandleExceptions(): the
\* decorator answers the request once, with the error's status and message.
Throw(status, message) == Respond(status, message)

\* --- the database
\* The row cap of the executor.
RowCap == 100

\* The numbers of rows the SELECT matches in the database.
TableSizes == {0, 1, RowCap, RowCap + 1}

NumberValue(t) == IF t = "100" THEN 100 ELSE 0

\* The value of the LIMIT clause of the text; -1 when it has none.
LimitOf(sql) ==
  IF \E i \in DOMAIN sql : sql[i] = "limit"
    THEN NumberValue(sql[FirstIndex({ i \in DOMAIN sql : sql[i] = "limit" })
                         + 1])
    ELSE -1

\* The length of queryResult.rows when the SELECT matches n rows: a LIMIT of
\* the text itself is all that bounds it; a DELETE returns no rows, and for
\* a batch of statements the driver returns a list of results, which has no
\* rows property.
DbRows(sql, n) ==
  IF Len(astify(sql).node) # 1 THEN 0
  ELSE IF astify(sql).node[1].type # "select" THEN 0
  ELSE IF LimitOf(sql) >= 0 /\ LimitOf(sql) < n THEN LimitOf(sql)
  ELSE n

\* --- SmartchatController.getChatInfo
CI_BadRequest ==
  /\ handler = "getChatInfo" /\ pc = "start"
  /\ \E msg \in {"Team or User ID missing.", "Invalid input data.",
                 "No messages provided."} : Throw(400, msg)
  /\ UNCHANGED <<schemaVars, suggestVars, answerVars, trimVars, validatorVars, calls, dbResult, handler, teamId, reply, sqlQuery, validated,
                 executed>>

CI_Start ==
  /\ handler = "getChatInfo" /\ pc = "start"
  /\ pc' = "classify"
  /\ calls' = Append(calls, "classifyUserIntent")
  /\ UNCHANGED <<schemaVars, suggestVars, answerVars, trimVars, validatorVars, dbResult, handler, teamId, reply, sqlQuery, validated,
                 executed, responses>>

\* classifyUserIntent returned something other than data_query.
CI_NotDataQuery_generates ==
  /\ handler = "getChatInfo" /\ pc = "classify"
  /\ \E intent \in {"chit_chat", "help", "other"} :
        responses' =
          Append(responses,
                 [status |-> 200,
                  answer |-> IF intent = "chit_chat" THEN "canned:chit_chat"
                             ELSE "canned:unknown"])
  /\ pc' = "generate"
  /\ calls' = Append(calls, "getSQLQueryFromMessage")
  /\ UNCHANGED <<schemaVars, suggestVars, answerVars, trimVars, validatorVars, dbResult, handler, teamId, reply, sqlQuery, validated,
                 executed>>

CI_NotDataQuery ==
  /\ handler = "getChatInfo" /\ pc = "classify"
  /\ \E intent \in {"chit_chat", "help", "other"} :
        Respond(200, IF intent = "chit_chat" THEN "canned:chit_chat"
                     ELSE "canned:unknown")
  /\ UNCHANGED <<schemaVars, suggestVars, answerVars, trimVars, validatorVars, calls, dbResult, handler, teamId, reply, sqlQuery, validated,
                 executed>>

\* data_query, and getTableSchema() is empty.
CI_NoSchema ==
  /\ handler = "getChatInfo" /\ pc = "classify"
  /\ Throw(400, "No schema available.")
  /\ UNCHANGED <<schemaVars, suggestVars, answerVars, trimVars, validatorVars, calls, dbResult, handler, teamId, reply, sqlQuery, validated,
                 executed>>

CI_DataQuery ==
  /\ handler = "getChatInfo" /\ pc = "classify"
  /\ pc' = "generate"
  /\ calls' = Append(calls, "getSQLQueryFromMessage")
  /\ UNCHANGED <<schemaVars, suggestVars, answerVars, trimVars, validatorVars, dbResult, handler, teamId, reply, sqlQuery, validated,
                 executed, responses>>

\* getSQLQueryFromMessage threw: the model call failed (503) or its reply
\* is no JSON (400).
CI_GenerateFailed_fallsThrough ==
  /\ handler = "getChatInfo" /\ pc = "generate"
  /\ \E e \in { [status |-> 503,
                 answer |-> "AI service is currently unavailable. Please try again later."],
                [status |-> 400,
                 answer |-> "Unable to understand the request. Please try rephrasing your message."] } :
        responses' = Append(responses, e)
  /\ \E c \in BatchParts : sqlQuery' = c
  /\ pc' = "execute"
  /\ UNCHANGED <<schemaVars, suggestVars, answerVars, trimVars, validatorVars, calls, dbResult, handler, teamId, reply, validated,
                 executed>>

CI_GenerateFailed ==
  /\ handler = "getChatInfo" /\ pc = "generate"
  /\ \E e \in { [status |-> 503,
                 answer |-> "AI service is currently unavailable. Please try again later."],
                [status |-> 400,
                 answer |-> "Unable to understand the request. Please try rephrasing your message."] } :
        Throw(e.status, e.answer)
  /\ UNCHANGED <<schemaVars, suggestVars, answerVars, trimVars, validatorVars, calls, dbResult, handler, teamId, reply, sqlQuery, validated,
                 executed>>

\* The test of lines 269-274 on the parsed reply.
NotAQuery_withoutIsQuery(r) ==
  \/ r.isNull
  \/ ~r.isString
  \/ r.query = << >>

NotAQuery(r) ==
  \/ r.isNull
  \/ ~r.isString
  \/ r.query = << >>
  \/ r.is_query = "false"

\* The same without the return after the response.
CI_NotAQuery_noReturn ==
  /\ handler = "getChatInfo" /\ pc = "generate"
  /\ \E r \in Replies :
        /\ NotAQuery(r)
        /\ reply' = r
        /\ responses' =
             Append(responses,
                    [status |-> 200,
                     answer |-> IF r.summary # "" THEN "summary"
                                ELSE "Sorry, I couldn't understand your request."])
        /\ sqlQuery' = r.query
  /\ pc' = "execute"
  /\ UNCHANGED <<schemaVars, suggestVars, answerVars, trimVars, validatorVars, calls, dbResult, handler, teamId, validated,
                 executed>>

CI_NotAQuery ==
  /\ handler = "getChatInfo" /\ pc = "generate"
  /\ \E r \in Replies :
        /\ NotAQuery(r)
        /\ reply' = r
        /\ Respond(200, IF r.summary # "" THEN "summary"
                        ELSE "Sorry, I couldn't understand your request.")
  /\ UNCHANGED <<schemaVars, suggestVars, answerVars, trimVars, validatorVars, calls, dbResult, handler, teamId, sqlQuery, validated,
                 executed>>

\* The reply carries a query: step 4 (filter injection) runs on it.
CI_Generate ==
  /\ handler = "getChatInfo" /\ pc = "generate"
  /\ \E r \in Replies :
        /\ ~NotAQuery(r)
        /\ reply' = r
        /\ sqlQuery' = EnforceTeamIdFilter(r.query, teamId)
  /\ pc' = "execute"
  /\ UNCHANGED <<schemaVars, suggestVars, answerVars, trimVars, validatorVars, calls, dbResult, handler, teamId, validated, executed,
                 responses>>

\* db.query(sqlQuery) resolves: only for text the database can parse.
CI_Execute ==
  /\ handler = "getChatInfo" /\ pc = "execute"
  /\ astify(sqlQuery).ok
  /\ executed' = Append(executed, sqlQuery)
  /\ \E n \in TableSizes : dbResult' = DbRows(sqlQuery, n)
  /\ pc' = "answer"
  /\ calls' = Append(calls, "getAnswerFromQueryResult")
  /\ UNCHANGED <<schemaVars, suggestVars, answerVars, trimVars, validatorVars, handler, teamId, reply, sqlQuery, validated,
                 responses>>

\* db.query(sqlQuery) rejects.
CI_ExecuteFailed_continues ==
  /\ handler = "getChatInfo" /\ pc = "execute"
  /\ executed' = Append(executed, sqlQuery)
  /\ responses' =
       Append(responses,
              [status |-> 500,
               answer |-> "Something went wrong while querying the data."])
  /\ pc' = "answer"
  /\ calls' = Append(calls, "getAnswerFromQueryResult")
  /\ UNCHANGED <<schemaVars, suggestVars, answerVars, trimVars, validatorVars, dbResult, handler, teamId, reply, sqlQuery, validated>>

CI_ExecuteFailed ==
  /\ handler = "getChatInfo" /\ pc = "execute"
  /\ executed' = Append(executed, sqlQuery)
  /\ Throw(500, "Something went wrong while querying the data.")
  /\ UNCHANGED <<schemaVars, suggestVars, answerVars, trimVars, validatorVars, calls, dbResult, handler, teamId, reply, sqlQuery, validated>>

CI_Answer ==
  /\ handler = "getChatInfo" /\ pc = "answer"
  /\ pc' = "suggest"
  /\ calls' = Append(calls, "generateFollowUpSuggestions")
  /\ UNCHANGED <<schemaVars, suggestVars, answerVars, trimVars, validatorVars, dbResult, handler, teamId, reply, sqlQuery, validated,
                 executed, responses>>

CI_AnswerFailed ==
  /\ handler = "getChatInfo" /\ pc = "answer"
  /\ Throw(500, "Unable to generate a response. Please try again later.")
  /\ UNCHANGED <<schemaVars, suggestVars, answerVars, trimVars, validatorVars, calls, dbResult, handler, teamId, reply, sqlQuery, validated,
                 executed>>

\* generateFollowUpSuggestions never throws; the final response is sent.
CI_Suggest ==
  /\ handler = "getChatInfo" /\ pc = "suggest"
  /\ Respond(200, "answer")
  /\ UNCHANGED <<schemaVars, suggestVars, answerVars, trimVars, validatorVars, calls, dbResult, handler, teamId, reply, sqlQuery, validated,
                 executed>>

\* --- SmartChatControllerBase.getQueryData
QD_NoUserMessage ==
  /\ handler = "getQueryData" /\ pc = "start"
  /\ Respond(0, "No valid user message found.")
  /\ UNCHANGED <<schemaVars, suggestVars, answerVars, trimVars, validatorVars, calls, dbResult, handler, teamId, reply, sqlQuery, validated,
                 executed>>

QD_SchemaFailed ==
  /\ handler = "getQueryData" /\ pc = "start"
  /\ \E e \in { [status |-> 500,
                 answer |-> "Failed to load schema. Please try again later."],
                [status |-> 500,
                 answer |-> "Schema could not be loaded. Please try again later."] } :
        Respond(e.status, e.answer)
  /\ UNCHANGED <<schemaVars, suggestVars, answerVars, trimVars, validatorVars, calls, dbResult, handler, teamId, reply, sqlQuery, validated,
                 executed>>

QD_Start ==
  /\ handler = "getQueryData" /\ pc = "start"
  /\ pc' = "generate"
  /\ calls' = Append(calls, "createChatCompletion")
  /\ UNCHANGED <<schemaVars, suggestVars, answerVars, trimVars, validatorVars, dbResult, handler, teamId, reply, sqlQuery, validated,
                 executed, responses>>

QD_GenerateFailed ==
  /\ handler = "getQueryData" /\ pc = "generate"
  /\ \E e \in { [status |-> 503,
                 answer |-> "AI service is currently unavailable."],
                [status |-> 500,
                 answer |-> "Unable to process the request. Please try again."] } :
        Respond(e.status, e.answer)
  /\ UNCHANGED <<schemaVars, suggestVars, answerVars, trimVars, validatorVars, calls, dbResult, handler, teamId, reply, sqlQuery, validated,
                 executed>>

\* The test of lines 757-761 on the parsed reply.
Unsafe(r, id) ==
  \/ r.isNull
  \/ r.is_query # "true"
  \/ ~r.isString
  \/ ~NamesTeamId(r.query, id)

QD_Unsafe ==
  /\ handler = "getQueryData" /\ pc = "generate"
  /\ \E r \in Replies :
        /\ Unsafe(r, teamId)
        /\ reply' = r
        /\ Respond(0, IF r.summary # "" THEN "summary"
                      ELSE "Invalid or unsafe query generated.")
  /\ UNCHANGED <<schemaVars, suggestVars, answerVars, trimVars, validatorVars, calls, dbResult, handler, teamId, sqlQuery, validated,
                 executed>>

\* validateSqlQuery(result.query, teamId) threw.
QD_Rejected ==
  /\ handler = "getQueryData" /\ pc = "generate"
  /\ \E r \in Replies :
        /\ ~Unsafe(r, teamId)
        /\ validateSqlQuery(r.query, {teamId}) # "Accepted"
        /\ reply' = r
        /\ Respond(0, "Query validation failed: "
                      \o ValidationMessage(r.query, {teamId}))
  /\ calls' = Append(calls, "validateSqlQuery")
  /\ UNCHANGED <<schemaVars, suggestVars, answerVars, trimVars, validatorVars, dbResult, handler, teamId, sqlQuery, validated,
                 executed>>

QD_Validated ==
  /\ handler = "getQueryData" /\ pc = "generate"
  /\ \E r \in Replies :
        /\ ~Unsafe(r, teamId)
        /\ validateSqlQuery(r.query, {teamId}) = "Accepted"
        /\ reply' = r
        /\ sqlQuery' = r.query
        /\ validated' = validated \cup {r.query}
  /\ pc' = "execute"
  /\ calls' = Append(calls, "validateSqlQuery")
  /\ UNCHANGED <<schemaVars, suggestVars, answerVars, trimVars, validatorVars, dbResult, handler, teamId, executed, responses>>

QD_Execute ==
  /\ handler = "getQueryData" /\ pc = "execute"
  /\ astify(sqlQuery).ok
  /\ executed' = Append(executed, sqlQuery)
  /\ \E n \in TableSizes : dbResult' = DbRows(sqlQuery, n)
  /\ Respond(0, "summary")
  /\ UNCHANGED <<schemaVars, suggestVars, answerVars, trimVars, validatorVars, calls, handler, teamId, reply, sqlQuery, validated>>

QD_ExecuteFailed ==
  /\ handler = "getQueryData" /\ pc = "execute"
  /\ executed' = Append(executed, sqlQuery)
  /\ Respond(0, "We encountered an issue while trying to fetch data. Please try rephrasing your question.")
  /\ UNCHANGED <<schemaVars, suggestVars, answerVars, trimVars, validatorVars, calls, dbResult, handler, teamId, reply, sqlQuery, validated>>

\* ------------------------------------------- token budget (OpenAIService)
MAX_TOKENS == 4096
DEFAULT_RESPONSE_TOKENS == 1000

\* A message: the kind of its content (a string, or an array of parts) and
\* the number of tokens encoder.encode yields for its text.
Message(kind, n) == [kind |-> kind, tokens |-> n]
ContentKinds == {"string", "parts"}

\* countTokens: 4 per message, the content tokens, 2 priming tokens.
RECURSIVE CountFrom(_, _)
CountFrom(msgs, i) ==
  IF i > Len(msgs) THEN 0 ELSE 4 + msgs[i].tokens + CountFrom(msgs, i + 1)

countTokens(msgs) == CountFrom(msgs, 1) + 2

\* The length of encoded.slice(0, end): a negative end counts from the end.
SliceLength(len, end) ==
  IF end >= 0
    THEN (IF end < len THEN end ELSE len)
    ELSE (IF len + end > 0 THEN len + end ELSE 0)

\* The token counts the text decoder.decode(new Uint8Array(truncatedEncoded))
\* may have: the kept token ids are read as bytes, so the text is not a
\* prefix of the original; k bytes decode to at least one character and to
\* at most k characters of at most three UTF-8 bytes each.
DecodedLengths(kept) == IF kept = 0 THEN {0} ELSE 1..(3 * kept)

\* truncateTextToFitTokens on a text of n tokens: the token counts the
\* returned text may have.
truncateTextToFitTokens(n, maxTokens) ==
  IF n <= maxTokens THEN {n}
  ELSE DecodedLengths(SliceLength(n, maxTokens))

\* The token counts the content of the last message may have when it is
\* pushed: only string content over the budget is truncated.
LastContentLengths(msgs, maxTokens) ==
  IF Len(msgs) = 0 THEN {0}
  ELSE IF /\ msgs[Len(msgs)].kind = "string"
          /\ 4 + msgs[Len(msgs)].tokens > maxTokens
    THEN truncateTextToFitTokens(msgs[Len(msgs)].tokens, maxTokens - 4)
    ELSE {msgs[Len(msgs)].tokens}

\* An element of trimmedMessages: message i of the input, with n content
\* tokens.
Kept(msgs, i, n) == [idx |-> i, kind |-> msgs[i].kind, tokens |-> n]

\* The loop over the earlier messages, newest first, until one does not fit.
RECURSIVE AddEarlier_skip(_, _, _, _, _)
AddEarlier_skip(msgs, i, totalTokens, maxTokens, acc) ==
  IF i < 1 THEN acc
  ELSE IF totalTokens + 4 + msgs[i].tokens > maxTokens
    THEN AddEarlier_skip(msgs, i - 1, totalTokens, maxTokens, acc)
  ELSE AddEarlier_skip(msgs, i - 1, totalTokens + 4 + msgs[i].tokens,
                       maxTokens, Append(acc, Kept(msgs, i, msgs[i].tokens)))

RECURSIVE AddEarlier(_, _, _, _, _)
AddEarlier(msgs, i, totalTokens, maxTokens, acc) ==
  IF i < 1 THEN acc
  ELSE IF totalTokens + 4 + msgs[i].tokens > maxTokens THEN acc
  ELSE AddEarlier(msgs, i - 1, totalTokens + 4 + msgs[i].tokens, maxTokens,
                  Append(acc, Kept(msgs, i, msgs[i].tokens)))

Reverse(s) == [i \in 1..Len(s) |-> s[Len(s) + 1 - i]]

\* trimMessagesToFitTokenLimit, n being the content tokens of the last
\* message when it is pushed.
trimMessagesToFitTokenLimit(msgs, maxTokens, n) ==
  IF Len(msgs) = 0 THEN << >>
  ELSE Reverse(AddEarlier(msgs, Len(msgs) - 1, 2 + 4 + n, maxTokens,
                          <<Kept(msgs, Len(msgs), n)>>))

\* The maxResponseTokens arguments: the default, and those that leave a
\* small input budget.
ResponseTokens ==
  {DEFAULT_RESPONSE_TOKENS} \cup { MAX_TOKENS - b : b \in 0..MaxBudget }

\* Content sizes: the small ones, and the one that meets the budget exactly
\* together with the 4 tokens of message overhead.
ContentSizes(maxTokens) ==
  (0..MaxContent) \cup { n \in {maxTokens - 4} : n >= 0 }

Conversations(maxTokens) ==
  UNION { [1..k -> { Message(kind, n) : kind \in ContentKinds,
                                       n \in ContentSizes(maxTokens) }] :
          k \in 0..MaxMessages }

\* createChatCompletion up to its await: trims, throws when nothing is left.
CreateChatCompletion ==
  /\ ccPc = "call"
  /\ \E n \in LastContentLengths(messages, MAX_TOKENS - maxResponseTokens) :
        trimmedMessages' =
          trimMessagesToFitTokenLimit(messages,
                                      MAX_TOKENS - maxResponseTokens, n)
  /\ ccPc' = IF Len(trimmedMessages') = 0 THEN "threwNoMessages"
             ELSE "awaiting"
  /\ ccAttempts' = IF Len(trimmedMessages') = 0 THEN 0 ELSE 1
  /\ UNCHANGED <<schemaVars, suggestVars, answerVars, validatorVars, turnVars, messages, maxResponseTokens>>

\* client.chat.completions.create resolves with a choice.
CC_Response ==
  /\ ccPc = "awaiting"
  /\ ccPc' = "returned"
  /\ UNCHANGED <<schemaVars, suggestVars, answerVars, validatorVars, turnVars, messages, maxResponseTokens,
                 trimmedMessages, ccAttempts>>

\* ... resolves without choices.
CC_NoChoices ==
  /\ ccPc = "awaiting"
  /\ ccPc' = "threwNoChoices"
  /\ UNCHANGED <<schemaVars, suggestVars, answerVars, validatorVars, turnVars, messages, maxResponseTokens,
                 trimmedMessages, ccAttempts>>

\* ... rejects.
CC_Rejected ==
  /\ ccPc = "awaiting"
  /\ ccPc' = "rejected"
  /\ UNCHANGED <<schemaVars, suggestVars, answerVars, validatorVars, turnVars, messages, maxResponseTokens,
                 trimmedMessages, ccAttempts>>

\* ------------------------------------ answer synthesis (controller base)
MAX_ITEMS_PER_CHUNK == 10

\* Math.ceil(n / size)
Ceil(n, size) == (n + size - 1) \div size

\* chunkArray: slice(i * size, (i + 1) * size) for i = 0 .. ceil - 1
chunkArray_overlap(arr, size) ==
  [i \in 1..Ceil(Len(arr), size) |->
     SubSeq(arr, IF i = 1 THEN 1 ELSE (i - 1) * size,
            IF i * size < Len(arr) THEN i * size ELSE Len(arr))]

chunkArray(arr, size) ==
  [i \in 1..Ceil(Len(arr), size) |->
     SubSeq(arr, (i - 1) * size + 1,
            IF i * size < Len(arr) THEN i * size ELSE Len(arr))]

\* What res.content may be: a string (here with or without surrounding
\* blanks) or no string at all.
ReplyContents == {"a", " b ", "null-value"}

\* String(content) of a non-string, then content.trim().
TrimmedContent(c) ==
  IF c = "null-value" THEN "null" ELSE IF c = " b " THEN "b" ELSE c

\* allResponses.join("\n\n"), a text as the sequence of its pieces.
RECURSIVE JoinFrom(_, _)
JoinFrom(rs, i) ==
  IF i > Len(rs) THEN << >>
  ELSE IF i = Len(rs) THEN <<rs[i]>>
  ELSE <<rs[i], "\n\n">> \o JoinFrom(rs, i + 1)

Join(rs) == JoinFrom(rs, 1)

NoMatchingData ==
  <<"No matching data found. Please try refining your question or parameters.">>

\* getAnswerFromQueryResult up to the first await: returns early on an empty
\* result, else sends the first chunk.
AQ_Start ==
  /\ aqPc = "call"
  /\ IF Len(result) = 0
       THEN /\ answerContent' = NoMatchingData
            /\ aqPc' = "returned"
            /\ modelCalls' = modelCalls
       ELSE /\ modelCalls' =
                 <<chunkArray(result, MAX_ITEMS_PER_CHUNK)[1]>>
            /\ aqPc' = "awaiting"
            /\ answerContent' = answerContent
  /\ UNCHANGED <<schemaVars, suggestVars, validatorVars, turnVars, trimVars, result, modelReplies,
                 allResponses>>

\* A call resolves and a chunk is left: its content is pushed and the next
\* chunk is sent.
AQ_NextChunk ==
  /\ aqPc = "awaiting"
  /\ Len(modelCalls) < Len(chunkArray(result, MAX_ITEMS_PER_CHUNK))
  /\ \E c \in ReplyContents :
        /\ modelReplies' = Append(modelReplies, c)
        /\ allResponses' = Append(allResponses, TrimmedContent(c))
  /\ modelCalls' =
       Append(modelCalls,
              chunkArray(result, MAX_ITEMS_PER_CHUNK)[Len(modelCalls) + 1])
  /\ UNCHANGED <<schemaVars, suggestVars, validatorVars, turnVars, trimVars, result, answerContent,
                 aqPc>>

\* The call of the last chunk resolves: the joined content is returned.
AQ_Finish ==
  /\ aqPc = "awaiting"
  /\ Len(modelCalls) = Len(chunkArray(result, MAX_ITEMS_PER_CHUNK))
  /\ \E c \in ReplyContents :
        /\ modelReplies' = Append(modelReplies, c)
        /\ allResponses' = Append(allResponses, TrimmedContent(c))
  /\ answerContent' = Join(allResponses')
  /\ aqPc' = "returned"
  /\ UNCHANGED <<schemaVars, suggestVars, validatorVars, turnVars, trimVars, result, modelCalls>>

\* A call rejects: AppError 500, no content.
AQ_ChunkFailed ==
  /\ aqPc = "awaiting"
  /\ aqPc' = "threw"
  /\ UNCHANGED <<schemaVars, suggestVars, validatorVars, turnVars, trimVars, result, modelCalls,
                 modelReplies, allResponses, answerContent>>

AnswerIdle ==
  /\ result = << >> /\ modelCalls = << >> /\ modelReplies = << >>
  /\ allResponses = << >> /\ answerContent = << >> /\ aqPc = "idle"

\* ------------------------------------ follow-up suggestions (OpenAIService)
\* The reply content as a sequence of pieces: the markers "1." and "2.",
\* a blank, and a run of other characters.
ContentPieces == {"1.", "2.", " ", "q"}

Contents == UNION { [1..k -> ContentPieces] : k \in 0..MaxReplyLen }

IsSpace(c) == c = " "

FirstNonSpace(t, from) ==
  FirstIndex({ j \in from..Len(t) : ~IsSpace(t[j]) })

LastNonSpace(t) ==
  IF \A j \in DOMAIN t : IsSpace(t[j]) THEN 0
  ELSE CHOOSE j \in DOMAIN t :
         ~IsSpace(t[j]) /\ \A l \in (j + 1)..Len(t) : IsSpace(t[l])

\* String.prototype.trim
TrimText(t) ==
  IF LastNonSpace(t) = 0 THEN << >>
  ELSE SubSeq(t, FirstNonSpace(t, 1), LastNonSpace(t))

\* /1\.\s*(.+?)\s*2\.\s*(.+)/s from a group 1 that ends at b: the position
\* of the marker "2." that follows it, with at least one piece after it;
\* 0 when there is none.
SecondMarker(t, b) ==
  IF /\ FirstNonSpace(t, b + 1) # 0
     /\ t[FirstNonSpace(t, b + 1)] = "2."
     /\ FirstNonSpace(t, b + 1) < Len(t)
  THEN FirstNonSpace(t, b + 1) ELSE 0

\* The ends the lazy group 1 may have when it starts at a.
Group1Ends(t, a) == { b \in a..Len(t) : SecondMarker(t, b) # 0 }

\* The starts group 1 may have after the marker "1." at i: the greedy \s*
\* gives back blanks when the rest does not match otherwise.
Group1Starts(t, i) ==
  { a \in (i + 1)..Len(t) :
      /\ \A j \in (i + 1)..(a - 1) : IsSpace(t[j])
      /\ Group1Ends(t, a) # {} }

MatchStarts(t) ==
  { i \in DOMAIN t : t[i] = "1." /\ Group1Starts(t, i) # {} }

LastIndex(S) == CHOOSE i \in S : \A j \in S : j <= i

\* The start of group 2 after the marker at k: the greedy \s* skips the
\* blanks but leaves one piece for (.+).
Group2Start(t, k) ==
  IF FirstNonSpace(t, k + 1) # 0 THEN FirstNonSpace(t, k + 1) ELSE Len(t)

\* match[1] and match[2] of the leftmost match, greedy \s* and lazy group 1.
Captured(t, a, b) ==
  << SubSeq(t, a, b),
     SubSeq(t, Group2Start(t, SecondMarker(t, b)), Len(t)) >>

CapturedFrom(t, a) == Captured(t, a, FirstIndex(Group1Ends(t, a)))

ContentMatch(t) ==
  CapturedFrom(t, LastIndex(Group1Starts(t, FirstIndex(MatchStarts(t)))))

FallbackSuggestions ==
  << <<"Can you elaborate?">>, <<"What else should I know about this?">> >>

\* The value returned for a reply content.
SuggestionsOf_firstOnly(t) ==
  IF MatchStarts(t) # {}
    THEN << TrimText(ContentMatch(t)[1]) >>
    ELSE FallbackSuggestions

SuggestionsOf(t) ==
  IF MatchStarts(t) # {}
    THEN << TrimText(ContentMatch(t)[1]), TrimText(ContentMatch(t)[2]) >>
    ELSE FallbackSuggestions

\* generateFollowUpSuggestions up to its await.
SG_Call ==
  /\ sgPc = "call"
  /\ sgPc' = "awaiting"
  /\ UNCHANGED <<schemaVars, validatorVars, turnVars, trimVars, answerVars, sgContent,
                 suggestions>>

\* The model call resolves with a content (the empty one for a null).
SG_Reply ==
  /\ sgPc = "awaiting"
  /\ \E t \in Contents :
        /\ sgContent' = t
        /\ suggestions' = SuggestionsOf(t)
  /\ sgPc' = "returned"
  /\ UNCHANGED <<schemaVars, validatorVars, turnVars, trimVars, answerVars>>

\* The model call rejects, or resolves without a choice: the catch block.
SG_Failed ==
  /\ sgPc = "awaiting"
  /\ suggestions' = FallbackSuggestions
  /\ sgPc' = "caught"
  /\ UNCHANGED <<schemaVars, validatorVars, turnVars, trimVars, answerVars, sgContent>>

SuggestIdle == sgContent = << >> /\ suggestions = << >> /\ sgPc = "idle"

\* ------------------------------------- schema cache (createTableSchema)
SCHEMA_CACHE_TTL == 600000

Calls == 1..MaxCalls

\* The configured tables.
TableConfigs == { << >>, <<"projects">>, <<"projects", "tasks">> }

\* The clock advances by just under the TTL, or by the TTL.
TickAmounts == {SCHEMA_CACHE_TTL - 1, SCHEMA_CACHE_TTL}

\* What a metadata query of one table does: rows, no row, or an error.
QueryOutcomes == {"rows", "none", "error"}

NullCache == [set |-> FALSE, timestamp |-> 0, schema |-> << >>]

\* this.schemaCache && now - this.schemaCache.timestamp < SCHEMA_CACHE_TTL
CacheValid_inclusive(cache, now) ==
  cache.set /\ now - cache.timestamp <= SCHEMA_CACHE_TTL

CacheValid(cache, now) ==
  cache.set /\ now - cache.timestamp < SCHEMA_CACHE_TTL

\* The locals of an invocation that has not started.
NotCalled ==
  [pc |-> "idle", now |-> 0, i |-> 0, schema |-> << >>, queries |-> << >>,
   outcomes |-> << >>, seen |-> NullCache, ret |-> << >>]

\* schema += rows.map(...).join("\n") + "\n" when the query returned rows.
SchemaAfter_resetOnError(schema, table, outcome) ==
  IF outcome = "rows" THEN Append(schema, table)
  ELSE IF outcome = "error" THEN << >>
  ELSE schema

SchemaAfter(schema, table, outcome) ==
  IF outcome = "rows" THEN Append(schema, table) ELSE schema

Tick ==
  /\ ticks < MaxTicks
  /\ \E d \in TickAmounts : clock' = clock + d
  /\ ticks' = ticks + 1
  /\ UNCHANGED <<validatorVars, turnVars, trimVars, answerVars, suggestVars,
                 tables, schemaCache, cts>>

\* createTableSchema up to its first await: the cache check, then either
\* the cached schema, or (no table configured) an empty schema cached and
\* returned, or the query of the first table.
CTS_Call(c) ==
  /\ cts[c].pc = "idle"
  /\ IF CacheValid(schemaCache, clock)
       THEN /\ cts' = [cts EXCEPT ![c] =
                         [@ EXCEPT !.pc = "returned", !.now = clock,
                                   !.seen = schemaCache,
                                   !.ret = schemaCache.schema]]
            /\ schemaCache' = schemaCache
       ELSE IF Len(tables) = 0
       THEN /\ cts' = [cts EXCEPT ![c] =
                         [@ EXCEPT !.pc = "returned", !.now = clock,
                                   !.seen = schemaCache]]
            /\ schemaCache' =
                 [set |-> TRUE, timestamp |-> clock, schema |-> << >>]
       ELSE /\ cts' = [cts EXCEPT ![c] =
                         [@ EXCEPT !.pc = "awaiting", !.now = clock,
                                   !.seen = schemaCache, !.i = 1,
                                   !.queries = <<tables[1]>>]]
            /\ schemaCache' = schemaCache
  /\ UNCHANGED <<validatorVars, turnVars, trimVars, answerVars, suggestVars,
                 clock, ticks, tables>>

\* The query of a table settles and a table is left: the next is queried.
CTS_NextTable(c) ==
  /\ cts[c].pc = "awaiting"
  /\ cts[c].i < Len(tables)
  /\ \E o \in QueryOutcomes :
        cts' = [cts EXCEPT ![c] =
                  [@ EXCEPT !.schema = SchemaAfter(@, tables[cts[c].i], o),
                            !.outcomes = Append(@, o),
                            !.i = @ + 1,
                            !.queries = Append(@, tables[cts[c].i + 1])]]
  /\ UNCHANGED <<validatorVars, turnVars, trimVars, answerVars, suggestVars,
                 clock, ticks, tables, schemaCache>>

\* The query of the last table settles: the cache is set and the schema
\* returned.
CTS_Finish_stampsAtWrite(c) ==
  /\ cts[c].pc = "awaiting"
  /\ cts[c].i = Len(tables)
  /\ \E o \in QueryOutcomes :
        /\ cts' = [cts EXCEPT ![c] =
                     [@ EXCEPT !.schema = SchemaAfter(@, tables[cts[c].i], o),
                               !.outcomes = Append(@, o),
                               !.ret = SchemaAfter(cts[c].schema,
                                                   tables[cts[c].i], o),
                               !.pc = "returned"]]
        /\ schemaCache' =
             [set |-> TRUE, timestamp |-> clock,
              schema |-> SchemaAfter(cts[c].schema, tables[cts[c].i], o)]
  /\ UNCHANGED <<validatorVars, turnVars, trimVars, answerVars, suggestVars,
                 clock, ticks, tables>>

CTS_Finish_keepsNewerTimestamp(c) ==
  /\ cts[c].pc = "awaiting"
  /\ cts[c].i = Len(tables)
  /\ \E o \in QueryOutcomes :
        /\ cts' = [cts EXCEPT ![c] =
                     [@ EXCEPT !.schema = SchemaAfter(@, tables[cts[c].i], o),
                               !.outcomes = Append(@, o),
                               !.ret = SchemaAfter(cts[c].schema,
                                                   tables[cts[c].i], o),
                               !.pc = "returned"]]
        /\ schemaCache' =
             [set |-> TRUE,
              timestamp |-> IF /\ schemaCache.set
                               /\ schemaCache.timestamp > cts[c].now
                            THEN schemaCache.timestamp ELSE cts[c].now,
              schema |-> SchemaAfter(cts[c].schema, tables[cts[c].i], o)]
  /\ UNCHANGED <<validatorVars, turnVars, trimVars, answerVars, suggestVars,
                 clock, ticks, tables>>

CTS_Finish(c) ==
  /\ cts[c].pc = "awaiting"
  /\ cts[c].i = Len(tables)
  /\ \E o \in QueryOutcomes :
        /\ cts' = [cts EXCEPT ![c] =
                     [@ EXCEPT !.schema = SchemaAfter(@, tables[cts[c].i], o),
                               !.outcomes = Append(@, o),
                               !.ret = SchemaAfter(cts[c].schema,
                                                   tables[cts[c].i], o),
                               !.pc = "returned"]]
        /\ schemaCache' =
             [set |-> TRUE, timestamp |-> cts[c].now,
              schema |-> SchemaAfter(cts[c].schema, tables[cts[c].i], o)]
  /\ UNCHANGED <<validatorVars, turnVars, trimVars, answerVars, suggestVars,
                 clock, ticks, tables>>

SchemaIdle ==
  /\ clock = 0 /\ ticks = 0 /\ tables = << >> /\ schemaCache = NullCache
  /\ cts = [c \in Calls |-> NotCalled]

TrimIdle ==
  /\ messages = << >> /\ maxResponseTokens = DEFAULT_RESPONSE_TOKENS
  /\ trimmedMessages = << >> /\ ccPc = "idle" /\ ccAttempts = 0

TurnIdle ==
  /\ handler = "none" /\ pc = "idle" /\ teamId = "T1" /\ reply = NullReply
  /\ sqlQuery = << >> /\ validated = {} /\ executed = << >>
  /\ responses = << >> /\ dbResult = 0 /\ calls = << >>

ValidatorIdle == vSql = << >> /\ vTeamIds = {} /\ vVerdict = "idle"

InitTurn ==
  /\ ValidatorIdle
  /\ SchemaIdle
  /\ SuggestIdle
  /\ AnswerIdle
  /\ TrimIdle
  /\ handler \in Handlers
  /\ teamId \in TeamIds
  /\ pc = "start"
  /\ reply = NullReply
  /\ sqlQuery = << >>
  /\ validated = {}
  /\ executed = << >>
  /\ responses = << >>
  /\ dbResult = 0
  /\ calls = << >>

NextTurn ==
  \/ CI_BadRequest \/ CI_Start \/ CI_NotDataQuery \/ CI_NoSchema
  \/ CI_DataQuery \/ CI_GenerateFailed \/ CI_NotAQuery \/ CI_Generate
  \/ CI_Execute \/ CI_ExecuteFailed \/ CI_Answer \/ CI_AnswerFailed
  \/ CI_Suggest
  \/ QD_NoUserMessage \/ QD_SchemaFailed \/ QD_Start \/ QD_GenerateFailed
  \/ QD_Unsafe \/ QD_Rejected \/ QD_Validated \/ QD_Execute
  \/ QD_ExecuteFailed

SpecTurn == InitTurn /\ [][NextTurn]_vars

\* ------------------------------------------- specification: the validator
InitValidate ==
  /\ vSql \in Candidates
  /\ vTeamIds \in TeamIdArgs
  /\ vVerdict = "pending"
  /\ TurnIdle
  /\ TrimIdle
  /\ AnswerIdle
  /\ SuggestIdle
  /\ SchemaIdle

Validate ==
  /\ vVerdict = "pending"
  /\ vVerdict' = validateSqlQuery(vSql, vTeamIds)
  /\ UNCHANGED <<schemaVars, suggestVars, answerVars, vSql, vTeamIds, turnVars, trimVars>>

NextValidate == Validate

SpecValidate == InitValidate /\ [][NextValidate]_vars

\* ------------------------------------ specification: createChatCompletion
InitTrim ==
  /\ ValidatorIdle
  /\ SchemaIdle
  /\ SuggestIdle
  /\ AnswerIdle
  /\ TurnIdle
  /\ maxResponseTokens \in ResponseTokens
  /\ messages \in Conversations(MAX_TOKENS - maxResponseTokens)
  /\ trimmedMessages = << >>
  /\ ccPc = "call"
  /\ ccAttempts = 0

NextTrim ==
  \/ CreateChatCompletion \/ CC_Response \/ CC_NoChoices \/ CC_Rejected

SpecTrim == InitTrim /\ [][NextTrim]_vars

\* -------------------------------- specification: getAnswerFromQueryResult
InitAnswer ==
  /\ ValidatorIdle
  /\ SchemaIdle
  /\ SuggestIdle
  /\ TurnIdle
  /\ TrimIdle
  /\ \E n \in 0..MaxRows : result = [i \in 1..n |-> i]
  /\ modelCalls = << >>
  /\ modelReplies = << >>
  /\ allResponses = << >>
  /\ answerContent = << >>
  /\ aqPc = "call"

NextAnswer == AQ_Start \/ AQ_NextChunk \/ AQ_Finish \/ AQ_ChunkFailed

SpecAnswer == InitAnswer /\ [][NextAnswer]_vars

\* ----------------------------- specification: generateFollowUpSuggestions
InitSuggest ==
  /\ ValidatorIdle
  /\ SchemaIdle
  /\ TurnIdle
  /\ TrimIdle
  /\ AnswerIdle
  /\ sgContent = << >>
  /\ suggestions = << >>
  /\ sgPc = "call"

NextSuggest == SG_Call \/ SG_Reply \/ SG_Failed

SpecSuggest == InitSuggest /\ [][NextSuggest]_vars

\* ------------------------------------- specification: createTableSchema
InitSchema ==
  /\ ValidatorIdle
  /\ TurnIdle
  /\ TrimIdle
  /\ AnswerIdle
  /\ SuggestIdle
  /\ clock = 0
  /\ ticks = 0
  /\ tables \in TableConfigs
  /\ schemaCache = NullCache
  /\ cts = [c \in Calls |-> NotCalled]

NextSchema ==
  \/ Tick
  \/ \E c \in Calls : CTS_Call(c)
  \/ \E c \in Calls : CTS_NextTable(c)
  \/ \E c \in Calls : CTS_Finish(c)

SpecSchema == InitSchema /\ [][NextSchema]_vars

\* ---------------------------------------------- properties of the validator
\* The statements of the validated input (none when it does not parse).
vStatements == IF astify(vSql).ok THEN astify(vSql).node ELSE << >>

\* A tenant predicate over the scope: team_id = literal of the scope, or
\* team_id IN a literal list that meets the scope.
TenantPredicate(node, scope) ==
  /\ node.left.type = "column_ref"
  /\ node.left.column = "team_id"
  /\ \/ /\ node.operator = "="
        /\ node.right.type = "string"
        /\ node.right.value \in scope
     \/ /\ node.operator = "IN"
        /\ node.right.type = "expr_list"
        /\ \E i \in DOMAIN node.right.value :
              /\ node.right.value[i].type = "string"
              /\ node.right.value[i].value \in scope

\* scoped(node) of the design: an AND is scoped when one side is, an OR only
\* when both sides are, anything else but a tenant predicate is not.
RECURSIVE scoped(_, _)
scoped(node, scope) ==
  IF node.type # "binary_expr" THEN FALSE
  ELSE IF node.operator = "AND"
  THEN scoped(node.left, scope) \/ scoped(node.right, scope)
  ELSE IF node.operator = "OR"
  THEN scoped(node.left, scope) /\ scoped(node.right, scope)
  ELSE TenantPredicate(node, scope)

\* Every table a statement references, at any nesting depth of its FROM list.
RECURSIVE ReferencedTables(_)
ReferencedTables(statement) ==
  UNION { (IF HasTable(statement.from[i])
           THEN {statement.from[i].table} ELSE {})
          \cup (IF "expr" \in DOMAIN statement.from[i]
                THEN ReferencedTables(statement.from[i].expr.ast) ELSE {})
          : i \in DOMAIN statement.from }

\* C3 (OR-safety): an accepted query's WHERE is scoped in the sense where an
\* OR needs both of its sides scoped; WHERE team_id = 'T1' OR status = 'x'
\* is not accepted.
C3_OrSafety ==
  vVerdict = "Accepted" =>
    \A i \in DOMAIN vStatements : scoped(vStatements[i].where, vTeamIds)

\* C4 (table allow-listing): an accepted query references only tables of
\* ALLOWED_TABLES, in FROM and in every JOIN branch at any depth, derived
\* sub-selects included.
C4_TableAllowList ==
  vVerdict = "Accepted" =>
    \A i \in DOMAIN vStatements :
       ReferencedTables(vStatements[i]) \subseteq ALLOWED_TABLES

\* C5 (single statement): only an input that parses to exactly one statement
\* is accepted.
C5_SingleStatement ==
  vVerdict = "Accepted" => Len(vStatements) = 1

\* C6 (SELECT only): an input with a parsed statement that is no SELECT is
\* rejected, whatever the statement's tables and WHERE clause; accepted
\* implies every statement is a SELECT.
C6_SelectOnly ==
  /\ vVerdict = "Accepted" =>
       \A i \in DOMAIN vStatements : vStatements[i].type = "select"
  /\ (vVerdict # "pending"
        /\ \E i \in DOMAIN vStatements : vStatements[i].type # "select")
     => vVerdict \in {"OnlySelect", "TableNotAllowed", "MissingTeamFilter"}

\* A DELETE over an allow-listed table with a valid tenant filter, second in
\* a batch after a valid SELECT, has been rejected for its kind.
C6_Witness ==
  /\ vVerdict = "OnlySelect"
  /\ Len(vStatements) = 2
  /\ vStatements[1].type = "select"
  /\ vStatements[2].type = "delete"
  /\ extractTables(vStatements[2]) = <<"tasks">>
  /\ hasValidTeamIdFilter(vStatements[2].where, vTeamIds)

\* Every team_id IN (...) of the tree that counts as a tenant predicate over
\* the scope lists string literals of the scope only.
RECURSIVE AuthorizedOnly(_, _)
AuthorizedOnly(node, scope) ==
  IF node.type # "binary_expr" THEN TRUE
  ELSE IF node.operator = "IN" /\ TenantPredicate(node, scope)
  THEN \A i \in DOMAIN node.right.value :
          /\ node.right.value[i].type = "string"
          /\ node.right.value[i].value \in scope
  ELSE AuthorizedOnly(node.left, scope) /\ AuthorizedOnly(node.right, scope)

\* C19 (scoped means authorized only): in an accepted query, a team_id IN
\* (...) list the validator counts as the tenant filter names no id outside
\* the caller's allowed team ids.
C19_AuthorizedOnly ==
  vVerdict = "Accepted" =>
    \A i \in DOMAIN vStatements :
       AuthorizedOnly(vStatements[i].where, vTeamIds)

\* A tenant predicate over the scope is reached from the node through AND
\* and OR only.
RECURSIVE ReachedThroughAndOr(_, _)
ReachedThroughAndOr(node, scope) ==
  IF node.type # "binary_expr" THEN FALSE
  ELSE IF node.operator \in {"AND", "OR"}
  THEN \/ ReachedThroughAndOr(node.left, scope)
       \/ ReachedThroughAndOr(node.right, scope)
  ELSE TenantPredicate(node, scope)

\* C20 (fail closed on other constructs): a tenant predicate that is an
\* operand of anything but AND and OR does not make a WHERE clause scoped;
\* an accepted query has a tenant predicate that is reached from the top of
\* its WHERE clause through AND and OR alone.
C20_FailClosed ==
  vVerdict = "Accepted" =>
    \A i \in DOMAIN vStatements :
       ReachedThroughAndOr(vStatements[i].where, vTeamIds)

\* The node compares the tenant column with a list: team_id IN (...).
IsTenantIn(node) ==
  /\ node.type = "binary_expr"
  /\ node.operator = "IN"
  /\ node.left.type = "column_ref"
  /\ node.left.column = "team_id"
  /\ node.right.type = "expr_list"

\* The values of the string literals of the list.
StringLiterals(node) ==
  { node.right.value[i].value :
      i \in { j \in DOMAIN node.right.value :
                node.right.value[j].type = "string" } }

\* The input is one SELECT over allowed tables whose WHERE clause is a
\* single team_id IN (...).
SingleTenantIn ==
  /\ Len(vStatements) = 1
  /\ vStatements[1].type = "select"
  /\ \A i \in DOMAIN extractTables(vStatements[1]) :
        extractTables(vStatements[1])[i] \in ALLOWED_TABLES
  /\ IsTenantIn(vStatements[1].where)

\* C21 (IN rule): a WHERE clause that is one team_id IN (literal list) counts
\* as the tenant filter if and only if at least one string literal of the
\* list is one of the allowed team ids; a list that shares no id with them
\* does not, and the query is rejected for its missing filter.
C21_InRule ==
  (vVerdict # "pending" /\ SingleTenantIn)
  => /\ hasValidTeamIdFilter(vStatements[1].where, vTeamIds)
          <=> (StringLiterals(vStatements[1].where) \cap vTeamIds # {})
     /\ IF StringLiterals(vStatements[1].where) \cap vTeamIds # {}
          THEN vVerdict = "Accepted"
          ELSE vVerdict = "MissingTeamFilter"

\* A list naming an allowed and another id has been accepted.
C21_Witness ==
  /\ vVerdict = "Accepted"
  /\ SingleTenantIn
  /\ vTeamIds = {"T1"}
  /\ StringLiterals(vStatements[1].where) = {"T1", "T2"}

\* --------------------------------------------------- properties of the turn
\* The statements of a SQL string (none when it does not parse).
StatementsOf(sql) == IF astify(sql).ok THEN astify(sql).node ELSE << >>

\* Each statement of the string restricts the tenant column to the team id.
RestrictsTenant(sql, id) ==
  \A k \in DOMAIN StatementsOf(sql) :
     scoped(StatementsOf(sql)[k].where, {id})

\* C1 (tenant isolation end to end): every SQL string getChatInfo hands to
\* db.query restricts team_id to the caller's own team id; a candidate that
\* names another team, or no team, is never executed as it is.  (Stated for
\* the strings the database can parse, the ones that return rows.)
C1_TenantIsolation ==
  handler = "getChatInfo" =>
    \A i \in DOMAIN executed :
       astify(executed[i]).ok => RestrictsTenant(executed[i], teamId)

\* C2 (validated before executed): every string handed to db.query was
\* accepted by validateSqlQuery earlier in the same turn, in getChatInfo and
\* in getQueryData.  (Stated for the strings the database can parse.)
C2_ValidatedBeforeExecuted ==
  \A i \in DOMAIN executed :
     astify(executed[i]).ok => executed[i] \in validated

\* The candidate is valid SQL over allow-listed tables that the validator
\* rejects only for its missing tenant filter.
MissingFilterOnly(sql, id) == validateSqlQuery(sql, {id}) = "MissingTeamFilter"

\* C7 (fallback to rejection): a candidate with no valid tenant filter and
\* no projects alias to rewrite it with is not executed.
C7_FallbackToRejection ==
  (/\ handler = "getChatInfo"
   /\ ~NotAQuery(reply)
   /\ MissingFilterOnly(reply.query, teamId)
   /\ ProjectAlias(reply.query) = "")
  => \A i \in DOMAIN executed : executed[i] # reply.query

\* The FROM entries of the single statement that name the projects table.
ProjectsEntries(sql) ==
  { i \in DOMAIN StatementsOf(sql)[1].from :
       /\ HasTable(StatementsOf(sql)[1].from[i])
       /\ StatementsOf(sql)[1].from[i].table = "projects" }

\* A single SELECT without any tenant predicate whose FROM list reaches the
\* tenant-bearing table projects exactly once, under an alias.
UnambiguousRewrite(sql, id) ==
  /\ MissingFilterOnly(sql, id)
  /\ Len(StatementsOf(sql)) = 1
  /\ \A j \in DOMAIN sql : sql[j] # "team_id"
  /\ Cardinality(ProjectsEntries(sql)) = 1
  /\ \A i \in ProjectsEntries(sql) : StatementsOf(sql)[1].from[i].as # ""

\* C8 (rewrite soundness): for such a SELECT, with or without a WHERE and
\* with any number of JOINs, the SQL after the injection step is accepted
\* by validateSqlQuery for the caller's team id.
C8_RewriteSoundness ==
  (/\ handler = "getChatInfo"
   /\ pc = "execute"
   /\ UnambiguousRewrite(reply.query, teamId))
  => validateSqlQuery(sqlQuery, {teamId}) = "Accepted"

\* C9 (idempotence of enforcement): a candidate the validator accepts, its
\* tenant predicate written with = or with IN, leaves the enforcement step
\* as the identical string, and enforcing twice equals enforcing once.
C9_Idempotence ==
  (handler = "getChatInfo" /\ pc = "execute")
  => /\ validateSqlQuery(reply.query, {teamId}) = "Accepted"
          => sqlQuery = reply.query
     /\ EnforceTeamIdFilter(sqlQuery, teamId) = sqlQuery

\* The answers sent so far.
Answers == { responses[i].answer : i \in DOMAIN responses }

\* The position of the first call of the collaborator; 0 when not called.
FirstCall(name) == FirstIndex({ i \in DOMAIN calls : calls[i] = name })

ExecutionApology == "Something went wrong while querying the data."

\* C22 (execution failure path): when db.query fails, getChatInfo answers
\* with the fixed apology and calls neither answer synthesis nor suggestion
\* generation, then or later; synthesis is called only after an execution
\* that succeeded and suggestion generation only after synthesis.
C22_ExecutionFailurePath ==
  /\ [](handler = "getChatInfo" =>
         /\ ExecutionApology \in Answers
              => /\ FirstCall("getAnswerFromQueryResult") = 0
                 /\ FirstCall("generateFollowUpSuggestions") = 0
         /\ FirstCall("getAnswerFromQueryResult") > 0
              => Len(executed) = 1 /\ astify(executed[1]).ok
         /\ FirstCall("generateFollowUpSuggestions") > 0
              => /\ FirstCall("getAnswerFromQueryResult") > 0
                 /\ FirstCall("getAnswerFromQueryResult")
                      < FirstCall("generateFollowUpSuggestions"))
  /\ [][(handler = "getChatInfo" /\ pc = "execute" /\ pc' = "done")
          => /\ Len(responses') = 1
             /\ responses'[1].answer = ExecutionApology
             /\ calls' = calls]_vars

\* A query that names no table the database has was handed to db.query and
\* the apology was sent.
C22_Witness ==
  /\ handler = "getChatInfo" /\ pc = "done"
  /\ Len(executed) = 1
  /\ ExecutionApology \in Answers
  /\ calls = <<"classifyUserIntent", "getSQLQueryFromMessage">>

CouldNotUnderstand ==
  "Unable to understand the request. Please try rephrasing your message."

\* C23 (intent parse failure stops the turn): when the reply of the model is
\* no JSON, getSQLQueryFromMessage throws the could-not-understand error;
\* the turn of getChatInfo ends there with no parsed reply, and neither
\* validateSqlQuery nor db.query is called in it, then or later.
C23_ParseFailureStops ==
  /\ []((handler = "getChatInfo" /\ CouldNotUnderstand \in Answers)
         => /\ pc = "done"
            /\ reply = NullReply
            /\ executed = << >>
            /\ validated = {}
            /\ FirstCall("validateSqlQuery") = 0
            /\ calls = <<"classifyUserIntent", "getSQLQueryFromMessage">>)
  /\ [][(handler = "getChatInfo" /\ CouldNotUnderstand \in Answers)
          => (executed' = executed /\ calls' = calls
              /\ responses' = responses)]_vars

C23_Witness ==
  /\ handler = "getChatInfo" /\ pc = "done"
  /\ responses = <<[status |-> 400, answer |-> CouldNotUnderstand]>>
  /\ executed = << >>

\* The messages of the failure classes of getChatInfo.
ConfigurationMessages == {"No schema available."}
SoftFailureMessages ==
  { CouldNotUnderstand,
    "AI service is currently unavailable. Please try again later.",
    ExecutionApology,
    "Unable to generate a response. Please try again later." }

\* C24 (error classes and status): in getChatInfo only the configuration
\* error (no schema) ends the request with a 4xx status; an intent
\* extraction error, a provider error and an execution error are answered
\* with status 200.
C24_ErrorClasses ==
  handler = "getChatInfo" =>
    \A i \in DOMAIN responses :
       /\ responses[i].answer \in ConfigurationMessages
            => responses[i].status \in 400..499
       /\ responses[i].answer \in SoftFailureMessages
            => responses[i].status = 200

\* The fixed messages for intents other than data_query.
CannedMessages == {"canned:chit_chat", "canned:unknown"}

\* C26 (non-query intents run no SQL): a turn of getChatInfo whose intent is
\* not data_query is answered with one canned message, status 200, after
\* the classification call alone: no SQL-generation call, no db.query, then
\* or later.  Every string that is handed to db.query comes from the
\* SQL-generation call and is the output of the filter-injection step.
C26_NonQueryIntents ==
  /\ []((handler = "getChatInfo" /\ Answers \cap CannedMessages # {})
         => /\ pc = "done"
            /\ Len(responses) = 1 /\ responses[1].status = 200
            /\ calls = <<"classifyUserIntent">>
            /\ executed = << >>)
  /\ [](handler = "getChatInfo"
         => \A i \in DOMAIN executed :
               /\ FirstCall("getSQLQueryFromMessage") > 0
               /\ executed[i] = EnforceTeamIdFilter(reply.query, teamId))
  /\ [][(handler = "getChatInfo" /\ Answers \cap CannedMessages # {})
          => (calls' = calls /\ executed' = executed)]_vars

C26_Witness ==
  /\ handler = "getChatInfo" /\ pc = "done"
  /\ responses = <<[status |-> 200, answer |-> "canned:unknown"]>>
  /\ calls = <<"classifyUserIntent">>

\* The extracted intent is marked as no query: is_query is false, or the
\* query is missing, no string, or blank.
MarkedNotAQuery(r) ==
  \/ r.isNull
  \/ r.is_query = "false"
  \/ ~r.isString
  \/ r.query = << >>

\* The messages of a failed SQL-generation call (no intent was extracted).
GenerationFailureMessages ==
  { "AI service is currently unavailable. Please try again later.",
    CouldNotUnderstand,
    "AI service is currently unavailable.",
    "Unable to process the request. Please try again." }

\* What a turn answers to an intent that is no query: the summary of the
\* model, or the fixed message of the handler.
NotAQueryAnswers ==
  { "summary", "Sorry, I couldn't understand your request.",
    "Invalid or unsafe query generated." }

C10_TokenBudget ==
  (ccPc \notin {"idle", "call"} /\ Len(messages) > 0)
  => /\ Len(trimmedMessages) > 0
     /\ trimmedMessages[Len(trimmedMessages)].idx = Len(messages)
     /\ countTokens(trimmedMessages) <= MAX_TOKENS - maxResponseTokens

\* C11 (model retry): a rejected model invocation is tried again before the
\* failure is surfaced, so a failure reaches the caller of
\* createChatCompletion only after more than one attempt.
C11_ModelRetry == ccPc = "rejected" => ccAttempts > 1

\* C18 (newest-first contiguous suffix): trimMessagesToFitTokenLimit returns
\* the last message, whatever its truncation, preceded in the original
\* order by the messages immediately before it, each unchanged and none
\* twice; the run is the longest that fits: either every message is kept,
\* or the newest message left out would take the total over the budget.
C18_ContiguousSuffix ==
  ccPc \notin {"idle", "call"}
  => LET L == Len(trimmedMessages)
         M == Len(messages)
     IN  /\ (M = 0) <=> (L = 0)
         /\ L <= M
         /\ \A j \in 1..L : trimmedMessages[j].idx = M - L + j
         /\ \A j \in 1..(L - 1) :
               /\ trimmedMessages[j].kind = messages[M - L + j].kind
               /\ trimmedMessages[j].tokens = messages[M - L + j].tokens
         /\ (0 < L /\ L < M)
              => countTokens(trimmedMessages) + 4 + messages[M - L].tokens
                   > MAX_TOKENS - maxResponseTokens

\* An older message that would fit is left out because a newer one does not.
C18_Witness ==
  /\ ccPc = "returned"
  /\ Len(messages) = 3 /\ Len(trimmedMessages) = 1
  /\ messages[2].tokens > messages[1].tokens
  /\ countTokens(trimmedMessages) + 4 + messages[1].tokens
       <= MAX_TOKENS - maxResponseTokens

\* C12 (row cap): the result set getChatInfo hands from query execution to
\* answer synthesis holds at most RowCap rows (every query of the model is
\* a non-aggregate SELECT *).
C12_RowCap ==
  (handler = "getChatInfo" /\ pc \in {"answer", "suggest", "done"})
  => dbResult <= RowCap

\* ---------------------------------------- properties of answer synthesis
\* The rows of the chunks, in call order.
RECURSIVE RowsSent(_, _)
RowsSent(chunks, i) ==
  IF i > Len(chunks) THEN << >> ELSE chunks[i] \o RowsSent(chunks, i + 1)

\* The pieces of the answer: every second piece is a separator.
AnswerOfReplies(replies) ==
  [k \in 1..(2 * Len(replies) - 1) |->
     IF k % 2 = 0 THEN "\n\n" ELSE TrimmedContent(replies[(k + 1) \div 2])]

\* C13 (chunked synthesis): for n > 0 rows the returned answer took exactly
\* ceil(n / 10) model calls, the chunks sent are the rows in their original
\* order with every row in exactly one chunk, and the answer is the
\* responses concatenated in chunk order.
C13_ChunkedSynthesis ==
  (aqPc = "returned" /\ Len(result) > 0)
  => /\ MAX_ITEMS_PER_CHUNK * Len(modelCalls) >= Len(result)
     /\ MAX_ITEMS_PER_CHUNK * (Len(modelCalls) - 1) < Len(result)
     /\ RowsSent(modelCalls, 1) = result
     /\ \A k \in DOMAIN modelCalls : Len(modelCalls[k]) > 0
     /\ Len(modelReplies) = Len(modelCalls)
     /\ answerContent = AnswerOfReplies(modelReplies)

\* 25 rows were answered with 3 model calls.
C13_Witness ==
  aqPc = "returned" /\ Len(result) = 25 /\ Len(modelCalls) = 3

\* ------------------------------------------- properties of the suggestions
\* The pairs (group 1, group 2) of every way the content matches
\* "1." blanks group1 blanks "2." blanks group2, trimmed.
CapturePairs(t) ==
  { << TrimText(SubSeq(t, c[1], c[2])), TrimText(SubSeq(t, c[3], Len(t))) >> :
      c \in { c \in (DOMAIN t) \X (DOMAIN t) \X (DOMAIN t) :
                /\ c[1] <= c[2] /\ c[2] < c[3]
                /\ \E i \in 1..(c[1] - 1) :
                      /\ t[i] = "1."
                      /\ \A j \in (i + 1)..(c[1] - 1) : IsSpace(t[j])
                /\ \E k \in (c[2] + 1)..(c[3] - 1) :
                      /\ t[k] = "2."
                      /\ \A j \in (c[2] + 1)..(k - 1) : IsSpace(t[j])
                      /\ \A j \in (k + 1)..(c[3] - 1) : IsSpace(t[j]) } }

\* C14 (suggestions): generateFollowUpSuggestions ends by returning, and
\* what it returns is a list of exactly two strings: a captured pair when
\* the reply matches the pattern, the fallback pair when it does not match
\* or the call failed.
C14_Suggestions ==
  /\ sgPc \in {"idle", "call", "awaiting", "returned", "caught"}
  /\ sgPc \in {"returned", "caught"} => Len(suggestions) = 2
  /\ sgPc = "caught" => suggestions = FallbackSuggestions
  /\ sgPc = "returned" =>
       IF CapturePairs(sgContent) = {}
         THEN suggestions = FallbackSuggestions
         ELSE suggestions \in CapturePairs(sgContent)

\* A reply "1. q 2. q" gave the two captured items.
C14_Witness ==
  /\ sgPc = "returned"
  /\ sgContent = <<"1.", " ", "q", "2.", " ", "q">>
  /\ suggestions = << <<"q">>, <<"q">> >>

\* The await points of getChatInfo in program order.
TurnRank(p) ==
  CASE p = "start" -> 0
    [] p = "classify" -> 1
    [] p = "generate" -> 2
    [] p = "execute" -> 3
    [] p = "answer" -> 4
    [] p = "suggest" -> 5
    [] OTHER -> 6

\* C15 (turn termination): every getChatInfo invocation, whatever its
\* external calls do, ends with exactly one response sent: it never sends a
\* second response, it is done only with a response sent, every step takes
\* it to a later await point (so it cannot run forever), and until it is
\* done a step of it is enabled at every await point (so it cannot stop
\* early).
C15_TurnTermination ==
  /\ [](handler = "getChatInfo" => Len(responses) <= 1)
  /\ [](handler = "getChatInfo" => (pc = "done" <=> Len(responses) = 1))
  /\ [][handler = "getChatInfo" => TurnRank(pc') > TurnRank(pc)]_vars
  /\ []((handler = "getChatInfo" /\ pc # "done") =>
         ENABLED (CI_Start \/ CI_DataQuery \/ CI_NotDataQuery
                  \/ CI_GenerateFailed \/ CI_ExecuteFailed
                  \/ CI_AnswerFailed \/ CI_Suggest))

\* A turn went through every step and sent its one final response.
C15_Witness ==
  /\ handler = "getChatInfo" /\ pc = "done"
  /\ Len(executed) = 1
  /\ Len(responses) = 1 /\ responses[1].status = 200
  /\ responses[1].answer = "answer"

\* The texts of the handlers that do not depend on the request (the two
\* validator errors without interpolation among them), and the placeholders
\* of the model's own words (summary, answer).
TemplatedMessages ==
  { "Team or User ID missing.", "Invalid input data.",
    "No messages provided.", "No schema available.",
    "canned:chit_chat", "canned:unknown",
    "AI service is currently unavailable. Please try again later.",
    "Unable to understand the request. Please try rephrasing your message.",
    "Sorry, I couldn't understand your request.",
    "Something went wrong while querying the data.",
    "Unable to generate a response. Please try again later.",
    "No valid user message found.",
    "Failed to load schema. Please try again later.",
    "Schema could not be loaded. Please try again later.",
    "AI service is currently unavailable.",
    "Unable to process the request. Please try again.",
    "Invalid or unsafe query generated.",
    "We encountered an issue while trying to fetch data. Please try rephrasing your question.",
    "Query validation failed: SQL Parsing Error: Invalid SQL syntax.",
    "Query validation failed: Only SELECT queries are allowed.",
    "summary", "answer" }

\* C16 (no internal detail in outbound text): the answer or summary text a
\* handler returns is one of the fixed templated messages (or the model's
\* own summary or answer), on every path; it never carries the raw error
\* message with a table name or a tenant id.
C16_NoInternalDetail ==
  \A i \in DOMAIN responses : responses[i].answer \in TemplatedMessages

\* ------------------------------------------ properties of the schema cache
\* The invocation was made less than the TTL after the timestamp of the
\* entry it found.
MadeWhileFresh(c) ==
  /\ cts[c].seen.set
  /\ cts[c].now - cts[c].seen.timestamp < SCHEMA_CACHE_TTL

\* The invocation returns in this step.
Returns(c) == cts[c].pc # "returned" /\ cts'[c].pc = "returned"

\* C17: a createTableSchema call made less than SCHEMA_CACHE_TTL after the
\* cached entry's timestamp returns the cached schema and issues no metadata
\* query; a call made at or after expiry, or with no entry, queries every
\* configured table and, as it returns, replaces the cache entry with the
\* schema it built and its own timestamp.
C17_SchemaCacheTtl ==
  /\ [](\A c \in Calls :
          cts[c].pc = "returned" =>
            IF MadeWhileFresh(c)
              THEN cts[c].queries = << >> /\ cts[c].ret = cts[c].seen.schema
              ELSE cts[c].queries = tables /\ cts[c].ret = cts[c].schema)
  /\ [][\A c \in Calls :
          Returns(c) =>
            IF MadeWhileFresh(c)'
              THEN schemaCache' = schemaCache
              ELSE schemaCache' = [set |-> TRUE, timestamp |-> cts'[c].now,
                                   schema |-> cts'[c].ret]]_vars

C17_Witness ==
  \E c, d \in Calls :
    /\ cts[c].pc = "returned" /\ cts[d].pc = "returned"
    /\ ~cts[d].seen.set /\ cts[d].queries = <<"projects", "tasks">>
    /\ cts[c].seen.set
    /\ cts[c].now - cts[c].seen.timestamp = SCHEMA_CACHE_TTL - 1
    /\ cts[c].queries = << >>
    /\ cts[c].ret = <<"projects">>

\* The invocation found no entry, or an expired one, and has returned.
Refreshed(c) == cts[c].pc = "returned" /\ ~MadeWhileFresh(c)

\* The entry an invocation writes: its own timestamp and its own schema.
Pair(c) ==
  [set |-> TRUE, timestamp |-> cts[c].now, schema |-> cts[c].ret]

\* C25 (concurrent cache refresh): overlapping createTableSchema calls on an
\* empty or expired cache each run to their end (a step is always possible
\* for a call in flight) and each returns the schema it built from all the
\* configured tables; the cache entry is only ever written whole by a
\* returning refresh, so it always is the (timestamp, schema) pair of one
\* refresh, the one that wrote last.
C25_ConcurrentRefresh ==
  /\ [](\A c \in Calls :
          /\ cts[c].pc = "awaiting"
               => ENABLED (CTS_NextTable(c) \/ CTS_Finish(c))
          /\ Refreshed(c)
               => cts[c].queries = tables /\ cts[c].ret = cts[c].schema)
  /\ [](schemaCache.set => \E c \in Calls : Refreshed(c) /\ schemaCache = Pair(c))
  /\ [][schemaCache' # schemaCache
          => \E c \in Calls : Returns(c) /\ schemaCache' = Pair(c)']_vars

\* Two refreshes overlapped (they started less than the TTL apart and both
\* rebuilt) and built different schemas; the one that started first wrote
\* last.
C25_Witness ==
  /\ Refreshed(1) /\ Refreshed(2)
  /\ cts[1].now < cts[2].now
  /\ cts[2].now - cts[1].now < SCHEMA_CACHE_TTL
  /\ cts[1].ret # cts[2].ret
  /\ schemaCache = Pair(1)

\* The tables among the first n whose metadata query returned rows, in
\* configured order.
RECURSIVE Described(_, _, _)
Described(tbls, outs, n) ==
  IF n = 0 THEN << >>
  ELSE IF outs[n] = "rows"
  THEN Append(Described(tbls, outs, n - 1), tbls[n])
  ELSE Described(tbls, outs, n - 1)

\* C27 (per-table introspection failure is not fatal): a createTableSchema
\* call in which the metadata query of a table threw goes on to the next
\* table and returns normally; the schema it returns holds, in configured
\* order, the descriptor of every table whose query returned rows.
C27_TableFailureNotFatal ==
  \A c \in Calls :
     /\ cts[c].pc \in {"idle", "awaiting", "returned"}
     /\ cts[c].pc = "awaiting"
          => /\ Len(cts[c].outcomes) = cts[c].i - 1
             /\ ENABLED (CTS_NextTable(c) \/ CTS_Finish(c))
     /\ Refreshed(c)
          => /\ Len(cts[c].outcomes) = Len(tables)
             /\ cts[c].ret = Described(tables, cts[c].outcomes, Len(tables))

\* The query of the first of two tables threw; the schema returned holds
\* the second.
C27_Witness ==
  \E c \in Calls :
     /\ Refreshed(c)
     /\ tables = <<"projects", "tasks">>
     /\ cts[c].outcomes = <<"error", "rows">>
     /\ cts[c].ret = <<"tasks">>

\* C29 as claimed (cache freshness under concurrency): across every
\* interleaving of overlapping createTableSchema calls the timestamp of the
\* cached entry never decreases.
C29_TimestampNeverDecreases ==
  [][schemaCache.set => schemaCache'.timestamp >= schemaCache.timestamp]_vars

\* C29 amended: the timestamp of the cached entry is the start time of the
\* refresh that wrote it and is never later than the clock; the last writer
\* wins, so the timestamp goes back exactly when a refresh that started
\* before the entry's timestamp, and is still in flight, returns.
C29_LastWriterTimestamp ==
  /\ [](schemaCache.set => schemaCache.timestamp <= clock)
  /\ [][schemaCache' # schemaCache
          => \E c \in Calls :
                Returns(c) /\ schemaCache'.timestamp = cts'[c].now]_vars
  /\ [][(schemaCache.set /\ schemaCache'.timestamp < schemaCache.timestamp)
          => \E c \in Calls :
                /\ Returns(c)
                /\ cts[c].pc = "awaiting"
                /\ cts[c].now < schemaCache.timestamp]_vars
  /\ [][\A c \in Calls :
          (Returns(c) /\ cts[c].pc = "awaiting" /\ schemaCache.set
           /\ cts[c].now < schemaCache.timestamp)
          => schemaCache'.timestamp < schemaCache.timestamp]_vars

\* The refresh that started first has overwritten the entry of the one that
\* started later: the entry carries the earlier timestamp.
C29_Witness ==
  \E c, d \in Calls :
     /\ Refreshed(c) /\ Refreshed(d)
     /\ cts[c].now < cts[d].now
     /\ schemaCache.timestamp = cts[c].now
     /\ clock > cts[c].now

\* C30 (an unusable schema is not cached): with tables configured,
\* createTableSchema never stores an empty schema, the result of a build in
\* which every metadata query failed or returned nothing, and no call is
\* answered from the cache with an empty schema: the call after such a build
\* queries the tables again.
C30_UnusableSchemaNotCached ==
  tables # << >> =>
    /\ schemaCache.set => schemaCache.schema # << >>
    /\ \A c \in Calls :
         (cts[c].pc = "returned" /\ MadeWhileFresh(c)) => cts[c].ret # << >>

====
